---- MODULE Spec2Model ----
(***************************************************************************)
(* Workflow Orchestration Engine of cultura-market-link (agent-ops         *)
(* backend): the Workflow Execution Service (one run of a graph of nodes   *)
(* in topological order) and the Dynamic Endpoint Publisher (deployments   *)
(* whose routes replay the graph through a ready-set loop).                *)
(*                                                                         *)
(* Node ids are modelled by the naturals 1..MaxNodes; the order of the     *)
(* naturals stands for the lexicographic order of the id strings.          *)
(***************************************************************************)
EXTENDS Integers, Sequences, FiniteSets, TLC

\* ------------------------------------------------------------------ bounds
MaxNodes == 3
MaxEdges == 3

\* Python's None as a data value; every data value is a record with a kind
None == [kind |-> "none"]
\* no exception
NoExc == "none"
\* the node_id of a run-level log entry (node_id=None)
NoNode == 0
\* error strings: a text, the node or id it names, and the messages it joins
Msg(text, node, detail) == [msg |-> text, node |-> node, detail |-> detail]
\* error_message=None, the default of NodeExecutionResult
NoMsg == None
\* the empty string, what str(e) is for an exception raised without arguments
EmptyStr == Msg("", NoNode, <<>>)

Ids == 1..MaxNodes
RunIds == {1}

VARIABLES
    pc,                 \* per run: position inside execute_workflow
    workflow,           \* per run: request.workflow = [nodes, edges]
    input_data,         \* per run: request.input_data
    active_executions,  \* execution_id -> WorkflowExecutionStatus
    context,            \* per run: ExecutionContext [node_results, logs]
    execution_order,    \* per run: the list computed by _topological_sort
    node_results,       \* per run: the local list node_results
    executed,           \* per run: the calls made to executor.execute: node, input, outcome
    result,             \* per run: what execute_workflow returned (or None)
    raised,             \* per run: the exception that escaped execute_workflow (or None)
    started,            \* per run: the response of the execute-async route (or None)
    status,             \* per run: the WorkflowExecutionStatus object of the run (or None)
    custom_ai_configs,  \* DynamicRouteService.custom_ai_configs: node type -> config
    registered_routes,  \* DynamicRouteService.registered_routes: deployment id -> record
    submitted,          \* the workflow the caller sends to the deploy route
    chain,              \* the invocation in flight of a deployment's execute route
    invocations,        \* number of route invocations started
    deployed_config,    \* per deployment and node: the configuration in force at deploy time
    used_config         \* per deployment and node: the configurations it was executed with

execVars == <<pc, workflow, input_data, active_executions, context, execution_order,
              node_results, executed, result, raised, started, status>>

deployVars == <<custom_ai_configs, registered_routes, submitted, chain, invocations,
                deployed_config, used_config>>

vars == <<execVars, deployVars>>

\* ------------------------------------------------------------ list helpers
Range(s) == {s[i] : i \in DOMAIN s}

RECURSIVE Insert(_, _)
Insert(x, s) ==
    IF s = <<>> THEN <<x>>
    ELSE IF x <= Head(s) THEN <<x>> \o s
    ELSE <<Head(s)>> \o Insert(x, Tail(s))

\* list.sort() on a list of node ids
RECURSIVE ListSort(_)
ListSort(s) == IF s = <<>> THEN <<>> ELSE Insert(Head(s), ListSort(Tail(s)))

\* [x for x in s if P(x)]
RECURSIVE SelectSeqOf(_, _)
SelectSeqOf(s, S) ==
    IF s = <<>> THEN <<>>
    ELSE IF Head(s) \in S THEN <<Head(s)>> \o SelectSeqOf(Tail(s), S)
    ELSE SelectSeqOf(Tail(s), S)

\* the keys of {node.id: ... for node in nodes} in insertion order
RECURSIVE DictKeys(_)
DictKeys(nodes) ==
    IF nodes = <<>> THEN <<>>
    ELSE LET rest == DictKeys(SubSeq(nodes, 1, Len(nodes) - 1))
             last == nodes[Len(nodes)]
         IN IF last \in Range(rest) THEN rest ELSE Append(rest, last)

\* graph = {node.id: [] ...}; for edge in edges: graph[edge.source].append(edge.target)
\* A source that is no key raises KeyError.
RECURSIVE BuildGraph(_, _)
BuildGraph(ids, edges) ==
    IF edges = <<>> THEN [exc |-> NoExc, graph |-> [n \in ids |-> <<>>]]
    ELSE LET prev == BuildGraph(ids, SubSeq(edges, 1, Len(edges) - 1))
             e == edges[Len(edges)]
         IN IF prev.exc # NoExc THEN prev
            ELSE IF e.source \notin ids THEN [exc |-> "KeyError", graph |-> prev.graph]
            ELSE [prev EXCEPT !.graph[e.source] = Append(@, e.target)]

\* ------------------------------------------------- Dependency Resolver
\* _topological_sort(nodes, edges): Kahn's algorithm with a sorted queue.
\* in_degree[edge.target] += 1 ; an endpoint that is no key raises KeyError.
RECURSIVE BuildInDegree(_, _)
BuildInDegree(ids, edges) ==
    IF edges = <<>> THEN [exc |-> NoExc, in_degree |-> [n \in ids |-> 0]]
    ELSE LET prev == BuildInDegree(ids, SubSeq(edges, 1, Len(edges) - 1))
             e == edges[Len(edges)]
         IN IF prev.exc # NoExc THEN prev
            ELSE IF e.source \notin ids \/ e.target \notin ids
                 THEN [exc |-> "KeyError", in_degree |-> prev.in_degree]
            ELSE [prev EXCEPT !.in_degree[e.target] = @ + 1]

\* for neighbor in graph[current]: in_degree[neighbor] -= 1;
\*     if in_degree[neighbor] == 0: queue.append(neighbor)
RECURSIVE UpdateNeighbors(_, _, _)
UpdateNeighbors(nbrs, in_degree, queue) ==
    IF nbrs = <<>> THEN [in_degree |-> in_degree, queue |-> queue]
    ELSE LET n == Head(nbrs)
             d == in_degree[n] - 1
         IN UpdateNeighbors(Tail(nbrs), [in_degree EXCEPT ![n] = d],
                            IF d = 0 THEN Append(queue, n) ELSE queue)

\* a queue left in the order its entries were appended
queue_unsorted(queue) == queue

\* queue.sort()
queue_sort(queue) == ListSort(queue)

\* while queue: queue.sort(); current = queue.pop(0); result.append(...); ...
RECURSIVE KahnLoop(_, _, _, _)
KahnLoop(graph, in_degree, queue, res) ==
    IF queue = <<>> THEN res
    ELSE LET sorted == queue_sort(queue)
             current == Head(sorted)
             upd == UpdateNeighbors(graph[current], in_degree, Tail(sorted))
         IN KahnLoop(graph, upd.in_degree, upd.queue, Append(res, current))

\* _topological_sort returning what Kahn's algorithm emitted, complete or not
_topological_sort_partial(nodes, edges) ==
    LET ids == Range(nodes)
        g == BuildGraph(ids, edges)
        deg == BuildInDegree(ids, edges)
    IN IF deg.exc # NoExc THEN [exc |-> "KeyError", order |-> <<>>]
       ELSE LET queue == SelectSeqOf(DictKeys(nodes), {n \in ids : deg.in_degree[n] = 0})
            IN [exc |-> NoExc, order |-> KahnLoop(g.graph, deg.in_degree, queue, <<>>)]

\* _topological_sort with every node in the initial queue, whatever its in-degree
_topological_sort_all_queued(nodes, edges) ==
    LET ids == Range(nodes)
        g == BuildGraph(ids, edges)
        deg == BuildInDegree(ids, edges)
    IN IF deg.exc # NoExc THEN [exc |-> "KeyError", order |-> <<>>]
       ELSE LET res == KahnLoop(g.graph, deg.in_degree, DictKeys(nodes), <<>>)
            IN [exc |-> NoExc, order |-> SubSeq(res, 1, Len(nodes))]

\* Returns [exc, order]: exc is None, "KeyError" or "ValueError" (cycles).
_topological_sort(nodes, edges) ==
    LET ids == Range(nodes)
        g == BuildGraph(ids, edges)
        deg == BuildInDegree(ids, edges)
    IN IF deg.exc # NoExc THEN [exc |-> "KeyError", order |-> <<>>]
       ELSE LET queue == SelectSeqOf(DictKeys(nodes), {n \in ids : deg.in_degree[n] = 0})
                res == KahnLoop(g.graph, deg.in_degree, queue, <<>>)
            IN IF Len(res) # Len(nodes)
               THEN [exc |-> "ValueError", order |-> <<>>]
               ELSE [exc |-> NoExc, order |-> res]

\* _has_cycles(nodes, edges): three-colour DFS.  st = [white, gray, black, ret, exc]
RECURSIVE dfs(_, _, _)
RECURSIVE dfs_neighbors(_, _, _)
dfs(graph, node_id, st) ==
    IF node_id \in st.gray THEN [st EXCEPT !.ret = TRUE]
    ELSE IF node_id \in st.black THEN [st EXCEPT !.ret = FALSE]
    ELSE IF node_id \notin st.white THEN [st EXCEPT !.exc = "KeyError"]  \* white.remove
    ELSE LET st1 == [st EXCEPT !.white = @ \ {node_id}, !.gray = @ \cup {node_id}]
             st2 == dfs_neighbors(graph, graph[node_id], st1)
         IN IF st2.exc # NoExc \/ st2.ret THEN st2
            ELSE [st2 EXCEPT !.gray = @ \ {node_id}, !.black = @ \cup {node_id},
                             !.ret = FALSE]

dfs_neighbors(graph, nbrs, st) ==
    IF nbrs = <<>> THEN [st EXCEPT !.ret = FALSE]
    ELSE LET st1 == dfs(graph, Head(nbrs), st)
         IN IF st1.exc # NoExc \/ st1.ret THEN st1
            ELSE dfs_neighbors(graph, Tail(nbrs), st1)

\* while white: if dfs(next(iter(white))): return True
\* iter_order is the iteration order of the set `white` (hash order of the ids)
RECURSIVE has_cycles_loop(_, _, _)
has_cycles_loop(graph, iter_order, st) ==
    IF st.white = {} THEN [st EXCEPT !.ret = FALSE]
    ELSE LET first == SelectSeqOf(iter_order, st.white)[1]
             st1 == dfs(graph, first, st)
         IN IF st1.exc # NoExc \/ st1.ret THEN st1
            ELSE has_cycles_loop(graph, iter_order, st1)

\* _has_cycles with one depth-first search, from the first unvisited node only
_has_cycles_single_dfs(nodes, edges, iter_order) ==
    LET ids == Range(nodes)
        g == BuildGraph(ids, edges)
    IN IF g.exc # NoExc THEN [exc |-> "KeyError", ret |-> FALSE]
       ELSE LET st == dfs(g.graph, iter_order[1],
                          [white |-> ids, gray |-> {}, black |-> {},
                           ret |-> FALSE, exc |-> NoExc])
            IN [exc |-> st.exc, ret |-> st.ret]

\* Returns [exc, ret]
_has_cycles(nodes, edges, iter_order) ==
    LET ids == Range(nodes)
        g == BuildGraph(ids, edges)
    IN IF g.exc # NoExc THEN [exc |-> "KeyError", ret |-> FALSE]
       ELSE LET st == has_cycles_loop(g.graph, iter_order,
                         [white |-> ids, gray |-> {}, black |-> {},
                          ret |-> FALSE, exc |-> NoExc])
            IN [exc |-> st.exc, ret |-> st.ret]

\* ------------------------------------------------- Execution Context
NewContext == [node_results |-> << >>, logs |-> <<>>]

\* ExecutionContext.log
Log(ctx, level, message, node_id) ==
    [ctx EXCEPT !.logs = Append(@, [level |-> level, message |-> message,
                                    node_id |-> node_id])]

\* a context that records the results of completed nodes only
set_node_result_if_completed(ctx, res) ==
    IF res.status = "completed"
    THEN [ctx EXCEPT !.node_results =
            [n \in DOMAIN @ \cup {res.node_id} |-> IF n = res.node_id THEN res ELSE @[n]]]
    ELSE ctx

\* ExecutionContext.set_node_result: node_results[result.node_id] = result
set_node_result(ctx, res) ==
    [ctx EXCEPT !.node_results =
        [n \in DOMAIN @ \cup {res.node_id} |-> IF n = res.node_id THEN res ELSE @[n]]]

\* get_node_output handing out the NodeExecutionResult itself
get_node_output_record(ctx, node_id) ==
    IF node_id \in DOMAIN ctx.node_results
    THEN [kind |-> "NodeExecutionResult", result |-> ctx.node_results[node_id]]
    ELSE None

\* get_node_output handing out the error message of a failed node
get_node_output_or_error(ctx, node_id) ==
    IF node_id \in DOMAIN ctx.node_results
    THEN IF ctx.node_results[node_id].status = "failed"
         THEN ctx.node_results[node_id].error_message
         ELSE ctx.node_results[node_id].output_data
    ELSE None

\* ExecutionContext.get_node_output
get_node_output(ctx, node_id) ==
    IF node_id \in DOMAIN ctx.node_results
    THEN ctx.node_results[node_id].output_data
    ELSE None

\* context.logs[-k:]
LastLogs(logs, k) ==
    IF Len(logs) <= k THEN logs ELSE SubSeq(logs, Len(logs) - k + 1, Len(logs))

\* ------------------------------------------------- Node Executor Contract
NodeLogTail == 10
NodeErrorLogTail == 5

\* The value a node's _execute_impl produces (opaque to the engine).
OutputOf(node_id) == [kind |-> "output", node |-> node_id]

\* What the try block of execute does: it goes through, or it raises the
\* exception exc whose str() is msg.
Raises(exc, msg) == [exc |-> exc, msg |-> msg]
\* validate_config and _execute_impl went through
Completes == Raises(NoExc, None)
\* validate_config returned false: raise ValueError("Invalid configuration ...")
InvalidConfiguration == Raises("ValueError", Msg("Invalid configuration", NoNode, <<>>))
\* _execute_impl raised an exception that carries a message
ImplError(node_id) == Raises("RuntimeError", Msg("node error", node_id, <<>>))
\* _execute_impl raised an exception without a message, such as
\* asyncio.TimeoutError(), whose str() is empty
ImplErrorNoMessage == Raises("TimeoutError", EmptyStr)

\* an except clause for ValueError alone
ExecutorCaughtValueError(exc) == exc = "ValueError"

\* `except Exception as e` of BaseNodeExecutor.execute: the classes it catches
ExecutorCaught(exc) == exc \in {"ValueError", "RuntimeError", "TimeoutError", "KeyError"}

\* BaseNodeExecutor.execute: body is what validate_config/_execute_impl did.
\* Returns [ctx, res, exc]: the context, the NodeExecutionResult returned and
\* the exception that escaped (one of the last two is absent).
execute(node_id, ctx, input, body) ==
    LET c1 == Log(ctx, "info", "Starting execution", node_id)
        c2 == Log(c1, "debug", "Node config", node_id)
        c3 == IF input # None THEN Log(c2, "debug", "Input data type", node_id) ELSE c2
    IN IF body.exc = NoExc
       THEN LET c4 == Log(c3, "info", "Successfully completed", node_id)
            IN [ctx |-> c4, exc |-> NoExc,
                res |-> [node_id |-> node_id, status |-> "completed",
                         output_data |-> OutputOf(node_id), error_message |-> NoMsg,
                         logs |-> LastLogs(c4.logs, NodeLogTail)]]
       ELSE IF ExecutorCaught(body.exc)
       THEN LET c4 == Log(c3, "error", "Failed to execute", node_id)
            IN [ctx |-> c4, exc |-> NoExc,
                res |-> [node_id |-> node_id, status |-> "failed",
                         output_data |-> None,
                         error_message |-> body.msg,
                         logs |-> LastLogs(c4.logs, NodeLogTail)]]
       ELSE [ctx |-> c3, exc |-> body.exc, res |-> None]

\* the outcome of a call of execute as the caller sees it
OutcomeOf(body) == IF body.exc = NoExc THEN "completed" ELSE "failed"

\* What the executor of a node may do during a run: complete or fail with a
\* message; the executor of node 1 may also fail without a message.
TryBodies(node_id) ==
    {Completes, ImplError(node_id)} \cup (IF node_id = 1 THEN {ImplErrorNoMessage} ELSE {})

\* ExecutorFactory._create_executor: the class of the executor of a node type
_create_executor(node_type) ==
    IF node_type = "document" THEN "DocumentExecutor"
    ELSE IF node_type \in {"claude4", "groqllama", "gemini", "chatbot"} THEN "AIExecutor"
    ELSE IF node_type = "api" THEN "APIExecutor"
    ELSE IF node_type = "search" THEN "SearchExecutor"
    ELSE IF node_type = "graphrag" THEN "GraphRAGExecutor"
    ELSE IF node_type = "logical_connector" THEN "LogicalConnectorExecutor"
    ELSE IF node_type \in {"embeddings", "image", "vapi"} THEN "PlaceholderExecutor"
    ELSE "PlaceholderExecutor"

\* ExecutorFactory.get_executor: the cached executor of a type is the one
\* _create_executor made for it
get_executor(node_type) == _create_executor(node_type)

\* a validate_config that checks the configuration whatever the executor
validate_config_checked(executor, wf, node_id) == node_id \notin wf.invalid_config

\* executor.validate_config(node.config): the placeholder accepts every
\* configuration; wf.invalid_config holds the nodes whose configuration the
\* validate_config of a full executor rejects
validate_config(executor, wf, node_id) ==
    executor = "PlaceholderExecutor" \/ node_id \notin wf.invalid_config

\* the nodes of a workflow whose executor rejects their configuration
Rejected(wf) ==
    {n \in Range(wf.nodes) : ~validate_config(get_executor(wf.types[n]), wf, n)}

\* the behaviours of a node whatever its configuration
BodiesForAnyConfig(wf, node_id) == TryBodies(node_id)

\* the behaviours of a node of a workflow: validate_config is the first call
\* inside the try block of execute, and it rejects the same configuration it
\* rejected during validation; the placeholder's _execute_impl logs, sleeps
\* and returns a dict
BodiesFor(wf, node_id) ==
    IF node_id \in Rejected(wf) THEN {InvalidConfiguration}
    ELSE IF get_executor(wf.types[node_id]) = "PlaceholderExecutor" THEN {Completes}
    ELSE TryBodies(node_id)

\* ------------------------------------------------- Workflow Execution Service
\* The source ids of [edge for edge in edges if edge.target == node.id], in edge order
RECURSIVE InputSources(_, _)
InputSources(edges, node_id) ==
    IF edges = <<>> THEN <<>>
    ELSE IF Head(edges).target = node_id
         THEN <<Head(edges).source>> \o InputSources(Tail(edges), node_id)
         ELSE InputSources(Tail(edges), node_id)

\* inputs = {}; for edge in input_edges: inputs[edge.source] = get_node_output(edge.source)
RECURSIVE CombineInputs(_, _)
CombineInputs(sources, ctx) ==
    IF sources = <<>> THEN << >>
    ELSE LET prev == CombineInputs(SubSeq(sources, 1, Len(sources) - 1), ctx)
             src == sources[Len(sources)]
         IN [k \in DOMAIN prev \cup {src} |->
                IF k = src THEN get_node_output(ctx, src) ELSE prev[k]]

\* _get_node_input_data collecting the outputs by the position of the edge
_get_node_input_data_positional(node_id, edges, ctx, initial_input) ==
    LET sources == InputSources(edges, node_id)
    IN IF sources = <<>>
       THEN [ctx |-> Log(ctx, "debug", "no input connections", node_id),
             input |-> initial_input]
       ELSE IF Len(sources) = 1
       THEN [ctx |-> Log(ctx, "debug", "receiving input from", node_id),
             input |-> get_node_output(ctx, sources[1])]
       ELSE [ctx |-> Log(ctx, "debug", "receiving input from sources", node_id),
             input |-> [kind |-> "dict",
                        items |-> [i \in 1..Len(sources) |-> get_node_output(ctx, sources[i])]]]

\* _get_node_input_data: returns [ctx, input]
_get_node_input_data(node_id, edges, ctx, initial_input) ==
    LET sources == InputSources(edges, node_id)
    IN IF sources = <<>>
       THEN [ctx |-> Log(ctx, "debug", "no input connections", node_id),
             input |-> initial_input]
       ELSE IF Len(sources) = 1
       THEN [ctx |-> Log(ctx, "debug", "receiving input from", node_id),
             input |-> get_node_output(ctx, sources[1])]
       ELSE [ctx |-> Log(ctx, "debug", "receiving input from sources", node_id),
             input |-> [kind |-> "dict", items |-> CombineInputs(sources, ctx)]]

\* The edge-reference errors of _validate_workflow, in edge order
RECURSIVE EdgeErrors(_, _)
EdgeErrors(ids, edges) ==
    IF edges = <<>> THEN <<>>
    ELSE LET e == Head(edges)
         IN (IF e.source \notin ids THEN <<Msg("Edge references non-existent source node", e.source, <<>>)>> ELSE <<>>)
            \o (IF e.target \notin ids THEN <<Msg("Edge references non-existent target node", e.target, <<>>)>> ELSE <<>>)
            \o EdgeErrors(ids, Tail(edges))

\* `for node in workflow.nodes: if not executor.validate_config(node.config)`:
\* a warning entry for every node whose id is in invalid, the set of the nodes
\* for which validate_config is false
RECURSIVE ConfigWarnings(_, _, _)
ConfigWarnings(nodes, invalid, ctx) ==
    IF nodes = <<>> THEN ctx
    ELSE ConfigWarnings(Tail(nodes), invalid,
                        IF Head(nodes) \in invalid
                        THEN Log(ctx, "warning", "incomplete configuration", NoNode)
                        ELSE ctx)

\* a validation that reports every rejected configuration as an error
config_errors_blocking(nodes, invalid) ==
    [i \in DOMAIN SelectSeq(nodes, LAMBDA n : n \in invalid) |->
        Msg("incomplete configuration", NoNode, <<>>)]

\* the entries the node-configuration loop of _validate_workflow appends to
\* errors: none, it only logs
config_errors(nodes, invalid) == <<>>

\* _validate_workflow: returns [exc, errors, ctx].  graphrag_errors are the blocking
\* errors that _validate_graphrag_nodes reports (database environment).
_validate_workflow(wf, ctx, iter_order, graphrag_errors) ==
    IF wf.nodes = <<>> THEN [exc |-> NoExc, errors |-> <<Msg("Workflow has no nodes", NoNode, <<>>)>>, ctx |-> ctx]
    ELSE LET ids == Range(wf.nodes)
             dup == IF Len(wf.nodes) # Cardinality(ids)
                    THEN <<Msg("Duplicate node IDs found", NoNode, <<>>)>> ELSE <<>>
             refs == EdgeErrors(ids, wf.edges)
             cyc == _has_cycles(wf.nodes, wf.edges, iter_order)
         IN IF cyc.exc # NoExc THEN [exc |-> cyc.exc, errors |-> <<>>, ctx |-> ctx]
            ELSE LET errors == dup \o refs
                               \o (IF cyc.ret THEN <<Msg("Workflow contains cycles", NoNode, <<>>)>> ELSE <<>>)
                               \o config_errors(wf.nodes, Rejected(wf))
                               \o graphrag_errors
                 IN [exc |-> NoExc, errors |-> errors,
                     ctx |-> Log(ConfigWarnings(wf.nodes, Rejected(wf), ctx),
                                 "debug", "Workflow validation found errors", NoNode)]

\* _execute_node: executor.execute inside try/except Exception; an exception
\* that escaped execute becomes a failed result with the last five logs.
_execute_node(node_id, ctx, input, body) ==
    LET ex == execute(node_id, ctx, input, body)
    IN IF ex.exc = NoExc THEN ex
       ELSE LET c1 == Log(ex.ctx, "error", "Node execution failed", node_id)
            IN [ctx |-> c1, exc |-> NoExc,
                res |-> [node_id |-> node_id, status |-> "failed",
                         output_data |-> None, error_message |-> body.msg,
                         logs |-> LastLogs(c1.logs, NodeErrorLogTail)]]

\* failed_nodes = [r for r in node_results if r.status == FAILED]
FailedNodes(results) == SelectSeq(results, LAMBDA r : r.status = "failed")

\* the final status taken from the last node result alone
FinalStatusOfLast(results) ==
    IF results # <<>> /\ results[Len(results)].status = "failed" THEN "failed" ELSE "completed"

\* final_status = FAILED if failed_nodes else COMPLETED
FinalStatus(results) == IF FailedNodes(results) # <<>> THEN "failed" ELSE "completed"

\* the final output taken from the first completed result instead of the last
FinalOutputOfFirst(results) ==
    LET ok == {i \in DOMAIN results : results[i].status = "completed"}
    IN IF ok = {} THEN None
       ELSE results[CHOOSE i \in ok : \A j \in ok : i <= j].output_data

\* successful_results = [r for r in reversed(node_results) if r.status == COMPLETED]
\* final_output = successful_results[0].output_data if successful_results else None
FinalOutput(results) ==
    LET ok == {i \in DOMAIN results : results[i].status = "completed"}
    IN IF ok = {} THEN None
       ELSE results[CHOOSE i \in ok : \A j \in ok : j <= i].output_data

\* the truth value of an Optional[str]: None and the empty string are false
Truthy(m) == m # None /\ m.msg # ""

\* errors=[r.error_message for r in failed_nodes if r.error_message]
ErrorsOf(results) ==
    LET failed == SelectSeq(FailedNodes(results), LAMBDA r : Truthy(r.error_message))
    IN [i \in DOMAIN failed |-> failed[i].error_message]

\* an except branch for KeyError alone, and one for ValueError alone
ExceptionCaughtKeyError(exc) == exc = "KeyError"
ExceptionCaughtValueError(exc) == exc = "ValueError"

\* `except Exception as e` of execute_workflow: the exception classes it catches
ExceptionCaught(exc) == exc \in {"KeyError", "ValueError"}

\* The result built by the except branch of execute_workflow
FailedResult(r, ctx, error_msg) ==
    [kind |-> "WorkflowExecutionResult", execution_id |-> r, status |-> "failed",
     node_results |-> <<>>, final_output |-> None,
     logs |-> ctx.logs, errors |-> <<error_msg>>]

\* ------------------------------------------------- inputs of a run
Edges == [source : Ids, target : Ids]
EdgeRank(e) == (e.source - 1) * MaxNodes + e.target

\* The node lists submitted: ids 1..n in ascending order, the longest of them
\* also in descending order, and a list that repeats its first node (a
\* duplicate id).  WorkflowDefinition refuses an empty node list.
NodeLists ==
    {[i \in 1..n |-> i] : n \in 1..MaxNodes}
    \cup {[i \in 1..MaxNodes |-> MaxNodes + 1 - i]}
    \cup {[i \in 1..MaxNodes |-> IF i = MaxNodes THEN 1 ELSE i]}

\* The edge lists submitted: up to MaxEdges edges between ids (an id that is
\* not in the node list makes the edge dangling), listed in ascending or in
\* descending order; an edge may be listed more than once.
EdgeLists ==
    {s \in UNION {[1..n -> Edges] : n \in 0..MaxEdges} :
        \/ \A i \in 1..(Len(s) - 1) : EdgeRank(s[i]) <= EdgeRank(s[i + 1])
        \/ \A i \in 1..(Len(s) - 1) : EdgeRank(s[i]) >= EdgeRank(s[i + 1])}

\* the type of every node id of the workflows of a run
DocumentTypes == [n \in Ids |-> "document"]

\* In these workflows every node is a document node with a configuration its
\* executor accepts.
Workflows ==
    [nodes : NodeLists, edges : EdgeLists, types : {DocumentTypes}, invalid_config : {{}}]

InitialInput == [kind |-> "payload"]

\* The iteration orders of a set of ids (the hash order of a Python set): the
\* rotations of the ascending and of the descending order, which are all the
\* orders of a set of up to three ids
IterOrders(ids) ==
    LET n == Cardinality(ids)
        asc == SelectSeqOf([i \in 1..MaxNodes |-> i], ids)
    IN {[i \in 1..n |-> asc[((i + k - 1) % n) + 1]] : k \in 0..(n - 1)}
       \cup {[i \in 1..n |-> asc[((n - i + k) % n) + 1]] : k \in 0..(n - 1)}

\* The blocking errors _validate_graphrag_nodes may report
GraphragErrors == {<<>>, <<Msg("GraphRAG node database connection is not working", NoNode, <<>>)>>}

IdleWorkflow ==
    [nodes |-> <<1>>, edges |-> <<>>, types |-> DocumentTypes, invalid_config |-> {}]

\* The Publisher before any deployment
NoChain == [phase |-> "idle", awaiting |-> NoNode]
IdleSubmitted == [nodes |-> <<>>, edges |-> <<>>]

PublisherInit ==
    /\ custom_ai_configs = << >>
    /\ registered_routes = << >>
    /\ chain = NoChain
    /\ invocations = 0
    /\ deployed_config = << >>
    /\ used_config = << >>

Init ==
    /\ PublisherInit
    /\ submitted = IdleSubmitted
    /\ workflow \in [RunIds -> Workflows]
    /\ pc = [r \in RunIds |-> "start"]
    /\ input_data = [r \in RunIds |-> InitialInput]
    /\ active_executions = << >>
    /\ context = [r \in RunIds |-> NewContext]
    /\ execution_order = [r \in RunIds |-> <<>>]
    /\ node_results = [r \in RunIds |-> <<>>]
    /\ executed = [r \in RunIds |-> <<>>]
    /\ result = [r \in RunIds |-> None]
    /\ raised = [r \in RunIds |-> NoExc]
    /\ started = [r \in RunIds |-> None]
    /\ status = [r \in RunIds |-> None]

\* a dict emptied instead of losing one key
DictCleared(d, k) == << >>

\* dict without key k (del d[k])
DictDel(d, k) == [x \in DOMAIN d \ {k} |-> d[x]]
\* d[k] = v
DictSet(d, k, v) == [x \in DOMAIN d \cup {k} |-> IF x = k THEN v ELSE d[x]]

\* a status object created as pending
WorkflowExecutionStatusPending ==
    [status |-> "pending", progress_percentage |-> 0, current_node |-> NoNode]

\* status = WorkflowExecutionStatus(execution_id, status=RUNNING, progress_percentage=0.0)
WorkflowExecutionStatus ==
    [status |-> "running", progress_percentage |-> 0, current_node |-> NoNode]

\* a finally branch that leaves the entry where it is
finally_keep(active, execution_id) == active

\* finally: if execution_id in self.active_executions: del self.active_executions[execution_id]
finally_del(active, execution_id) ==
    IF execution_id \in DOMAIN active THEN DictDel(active, execution_id) ELSE active

\* execute_workflow up to its first await: the context and the tracked status,
\* which is the object active_executions holds
StartRun(r) ==
    /\ pc[r] = "start"
    /\ context' = [context EXCEPT ![r] =
                      Log(NewContext, "info", "Starting workflow execution", NoNode)]
    /\ status' = [status EXCEPT ![r] = WorkflowExecutionStatus]
    /\ active_executions' = DictSet(active_executions, r, WorkflowExecutionStatus)
    /\ pc' = [pc EXCEPT ![r] = "validate"]
    /\ UNCHANGED <<workflow, input_data, execution_order, node_results, executed,
                   result, raised>>
    /\ UNCHANGED <<started, deployVars>>

\* An exception exc with message error_msg raised inside the try block: the
\* except branch returns a failed result when it catches exc, and the finally
\* branch removes the run from active_executions either way.
RaiseInTry(r, ctx, exc, error_msg) ==
    /\ IF ExceptionCaught(exc)
       THEN LET c1 == Log(ctx, "error", "Workflow execution failed", NoNode)
            IN /\ context' = [context EXCEPT ![r] = c1]
               /\ result' = [result EXCEPT ![r] = FailedResult(r, c1, error_msg)]
               /\ raised' = raised
       ELSE /\ context' = [context EXCEPT ![r] = ctx]
            /\ raised' = [raised EXCEPT ![r] = exc]
            /\ result' = result
    /\ status' = [status EXCEPT ![r] =
                     IF ExceptionCaught(exc)
                     THEN [@ EXCEPT !.status = "failed", !.current_node = NoNode]
                     ELSE @]
    /\ active_executions' = finally_del(active_executions, r)
    /\ pc' = [pc EXCEPT ![r] = "done"]
    /\ UNCHANGED <<workflow, input_data, execution_order, node_results, executed>>
    /\ UNCHANGED <<started, deployVars>>

\* execute_workflow: validation and the computation of the execution order
Validate(r) ==
    /\ pc[r] = "validate"
    /\ \E iter_order \in IterOrders(Range(workflow[r].nodes)), graphrag_errors \in GraphragErrors :
        LET c1 == Log(context[r], "info", "Validating workflow structure", NoNode)
            v == _validate_workflow(workflow[r], c1, iter_order, graphrag_errors)
            c2 == Log(v.ctx, "info", "Computing execution order", NoNode)
            t == _topological_sort(workflow[r].nodes, workflow[r].edges)
        IN IF v.exc # NoExc
           THEN RaiseInTry(r, c1, v.exc, Msg(v.exc, NoNode, <<>>))
           ELSE IF v.errors # <<>>
           THEN RaiseInTry(r, v.ctx, "ValueError",
                           Msg("Workflow validation failed", NoNode, v.errors))
           ELSE IF t.exc # NoExc
           THEN RaiseInTry(r, c2, t.exc,
                           Msg("Workflow contains cycles - cannot determine execution order",
                               NoNode, <<>>))
           ELSE /\ context' = [context EXCEPT ![r] = Log(c2, "info", "Execution order", NoNode)]
                /\ execution_order' = [execution_order EXCEPT ![r] = t.order]
                /\ pc' = [pc EXCEPT ![r] = "execute"]
                /\ UNCHANGED <<workflow, input_data, active_executions, node_results,
                               executed, result, raised>>
                /\ UNCHANGED <<started, status, deployVars>>

\* a loop that is left as soon as a node has failed
LoopOverOnFailure(r) ==
    \/ Len(node_results[r]) = Len(execution_order[r])
    \/ FailedNodes(node_results[r]) # <<>>

\* `for i, node in enumerate(execution_order)` has gone through every node
LoopOver(r) == Len(node_results[r]) = Len(execution_order[r])

\* One iteration of `for i, node in enumerate(execution_order)`
ExecNode(r) ==
    /\ pc[r] = "execute"
    /\ ~LoopOver(r)
    /\ \E body \in BodiesFor(workflow[r], execution_order[r][Len(node_results[r]) + 1]) :
        LET i == Len(node_results[r])
            total_nodes == Len(execution_order[r])
            node == execution_order[r][i + 1]
            c1 == Log(context[r], "info", "Executing node", NoNode)
            inp == _get_node_input_data(node, workflow[r].edges, c1, input_data[r])
            ex == _execute_node(node, inp.ctx, inp.input, body)
            c2 == set_node_result(ex.ctx, ex.res)
            c3 == IF ex.res.status = "completed"
                  THEN Log(c2, "info", "Node completed successfully", NoNode)
                  ELSE Log(c2, "error", "Node failed", NoNode)
        IN /\ status' = [status EXCEPT ![r].progress_percentage = (i * 100) \div total_nodes,
                                        ![r].current_node = node]
           /\ active_executions' =
                [active_executions EXCEPT ![r].progress_percentage = (i * 100) \div total_nodes,
                                          ![r].current_node = node]
           /\ executed' = [executed EXCEPT ![r] = Append(@, [node |-> node, input |-> inp.input,
                                                          outcome |-> OutcomeOf(body),
                                                          body |-> body])]
           /\ node_results' = [node_results EXCEPT ![r] = Append(@, ex.res)]
           /\ context' = [context EXCEPT ![r] = c3]
    /\ UNCHANGED <<pc, workflow, input_data, execution_order, result, raised>>
    /\ UNCHANGED <<started, deployVars>>

\* execute_workflow after the loop: final status, final output, the result
Finish(r) ==
    /\ pc[r] = "execute"
    /\ LoopOver(r)
    /\ LET final_status == FinalStatus(node_results[r])
           res == [kind |-> "WorkflowExecutionResult", execution_id |-> r,
                   status |-> final_status,
                   node_results |-> node_results[r],
                   final_output |-> FinalOutput(node_results[r]),
                   logs |-> context[r].logs,
                   errors |-> ErrorsOf(node_results[r])]
           c1 == Log(context[r], "info", "Workflow execution completed", NoNode)
           c2 == Log(c1, "info", "Total execution time", NoNode)
       IN /\ result' = [result EXCEPT ![r] = res]
          /\ status' = [status EXCEPT ![r] = [@ EXCEPT !.status = final_status,
                                                       !.progress_percentage = 100,
                                                       !.current_node = NoNode]]
          /\ context' = [context EXCEPT ![r] = c2]
    /\ active_executions' = finally_del(active_executions, r)
    /\ pc' = [pc EXCEPT ![r] = "done"]
    /\ UNCHANGED <<workflow, input_data, execution_order, node_results, executed, raised>>
    /\ UNCHANGED <<started, deployVars>>

Next == \E r \in RunIds : StartRun(r) \/ Validate(r) \/ ExecNode(r) \/ Finish(r)

Spec == Init /\ [][Next]_vars

\* ------------------------------------------------- runs with rejected configurations
MaxConfigNodes == 2

\* the edge lists of the workflows below: none, the chain 1 -> ... -> n, and
\* the chain closed to a cycle by n -> 1
ConfigEdgeLists(n) ==
    LET line == [i \in 1..(n - 1) |-> [source |-> i, target |-> i + 1]]
    IN {<<>>, line, Append(line, [source |-> n, target |-> 1])}

\* a type with a full executor and one without
ConfigTypes == {"api", "image"}

\* nodes 1..n of these types, any of which may have a configuration that a
\* full executor rejects
ConfigWorkflows ==
    UNION {[nodes : {[i \in 1..n |-> i]}, edges : ConfigEdgeLists(n),
            types : [1..n -> ConfigTypes],
            invalid_config : SUBSET (1..n)] : n \in 1..MaxConfigNodes}

InitConfig ==
    /\ PublisherInit
    /\ submitted = IdleSubmitted
    /\ workflow \in [RunIds -> ConfigWorkflows]
    /\ pc = [r \in RunIds |-> "start"]
    /\ input_data = [r \in RunIds |-> InitialInput]
    /\ active_executions = << >>
    /\ context = [r \in RunIds |-> NewContext]
    /\ execution_order = [r \in RunIds |-> <<>>]
    /\ node_results = [r \in RunIds |-> <<>>]
    /\ executed = [r \in RunIds |-> <<>>]
    /\ result = [r \in RunIds |-> None]
    /\ raised = [r \in RunIds |-> NoExc]
    /\ started = [r \in RunIds |-> None]
    /\ status = [r \in RunIds |-> None]

NextConfig == \E r \in RunIds : StartRun(r) \/ Validate(r) \/ ExecNode(r) \/ Finish(r)

SpecConfig == InitConfig /\ [][NextConfig]_vars

\* ------------------------------------------------- two runs on one service
MaxConcurrentNodes == 2

\* two calls of execute_workflow on the same WorkflowExecutionService; uuid4
\* gives each its own execution_id
ConcurrentRunIds == {1, 2}

\* the workflows of the two requests: nodes 1..n without edges, as a chain
\* 1 -> 2 -> ... -> n, or with the single edge n -> 1
ConcurrentWorkflows ==
    UNION {{[nodes |-> [i \in 1..n |-> i], edges |-> es,
             types |-> [i \in 1..n |-> "document"], invalid_config |-> {}] :
               es \in {<<>>,
                       [i \in 1..(n - 1) |-> [source |-> i, target |-> i + 1]],
                       <<[source |-> n, target |-> 1]>>}} : n \in 1..MaxConcurrentNodes}

InitConcurrent ==
    /\ PublisherInit
    /\ submitted = IdleSubmitted
    /\ workflow \in [ConcurrentRunIds -> ConcurrentWorkflows]
    /\ pc = [r \in ConcurrentRunIds |-> "start"]
    /\ input_data \in [ConcurrentRunIds -> {None, InitialInput}]
    /\ active_executions = << >>
    /\ context = [r \in ConcurrentRunIds |-> NewContext]
    /\ execution_order = [r \in ConcurrentRunIds |-> <<>>]
    /\ node_results = [r \in ConcurrentRunIds |-> <<>>]
    /\ executed = [r \in ConcurrentRunIds |-> <<>>]
    /\ result = [r \in ConcurrentRunIds |-> None]
    /\ raised = [r \in ConcurrentRunIds |-> NoExc]
    /\ started = [r \in ConcurrentRunIds |-> None]
    /\ status = [r \in ConcurrentRunIds |-> None]

\* the event loop resumes either run at any of its awaits
NextConcurrent ==
    \E r \in ConcurrentRunIds : StartRun(r) \/ Validate(r) \/ ExecNode(r) \/ Finish(r)

SpecConcurrent == InitConcurrent /\ [][NextConcurrent]_vars

\* ------------------------------------------------- runs started in the background
\* f"exec_{n}": a name no uuid4 string equals; the uuid4 ids are the positive
\* run ids, these are the negative numbers
exec_id(n) == 0 - n

\* WorkflowExecutionService.get_execution_status: active_executions.get(id)
get_execution_status(execution_id) ==
    IF execution_id \in DOMAIN active_executions THEN active_executions[execution_id]
    ELSE None

\* the active-executions route: the number of tracked runs and what it shows
\* of each
get_active_executions ==
    [active_count |-> Cardinality(DOMAIN active_executions),
     executions |-> [e \in DOMAIN active_executions |->
                        [status |-> active_executions[e].status,
                         progress |-> active_executions[e].progress_percentage,
                         current_node |-> active_executions[e].current_node]]]

\* the execute-async route: the id it answers with, and the task it schedules
execute_workflow_async(r) ==
    /\ pc[r] = "start"
    /\ started[r] = None
    /\ started' = [started EXCEPT ![r] =
                      [execution_id |-> exec_id(Cardinality(DOMAIN active_executions) + 1),
                       status |-> "started"]]
    /\ UNCHANGED <<pc, workflow, input_data, active_executions, context, execution_order,
                   node_results, executed, result, raised, status>>
    /\ UNCHANGED deployVars

\* the background task run_workflow begins: execute_workflow(request)
run_workflow(r) == started[r] # None /\ StartRun(r)

NextAsync ==
    \E r \in ConcurrentRunIds :
        execute_workflow_async(r) \/ run_workflow(r) \/ Validate(r) \/ ExecNode(r) \/ Finish(r)

SpecAsync == InitConcurrent /\ [][NextAsync]_vars

\* ------------------------------------------------- the logical connector
MaxConnectorInputs == 2

\* Python values: None, bool, int, float (in hundredths), str, list, dict (a
\* list of key/value pairs)
PyBool(b) == [kind |-> "bool", b |-> b]
PyInt(n) == [kind |-> "int", n |-> n]
PyFloat(hundredths) == [kind |-> "float", hundredths |-> hundredths]
PyStr(str) == [kind |-> "str", str |-> str]
PyList(items) == [kind |-> "list", items |-> items]
PyDict(pairs) == [kind |-> "dict", pairs |-> pairs]

\* str.lower().strip() on the strings below
lower_strip(str) ==
    IF str = "FALSE" THEN "false" ELSE IF str = " No " THEN "no" ELSE str

falsy_strings == {"false", "no", "off", "0", "null", "undefined", "none", ""}

\* hasattr(value, '__len__') for a value that is no None, bool, number or str
has_len(value) == value.kind \in {"list", "dict"}

\* len(value)
len(value) == IF value.kind = "list" THEN Len(value.items) ELSE Len(value.pairs)

\* 'key' in value, value['key'] for a dict
HasKey(value, key) == \E i \in DOMAIN value.pairs : value.pairs[i][1] = key
Lookup(value, key) ==
    value.pairs[CHOOSE i \in DOMAIN value.pairs : value.pairs[i][1] = key][2]

\* bool(x) of Python for the values above
bool(value) ==
    IF value.kind = "none" THEN FALSE
    ELSE IF value.kind = "bool" THEN value.b
    ELSE IF value.kind = "int" THEN value.n # 0
    ELSE IF value.kind = "float" THEN value.hundredths # 0
    ELSE IF value.kind = "str" THEN value.str # ""
    ELSE len(value) > 0

\* LogicalConnectorExecutor._is_truthy, branch by branch in the order of the code
_is_truthy(value) ==
    IF value.kind = "none" THEN FALSE
    ELSE IF value.kind = "bool" THEN value.b
    ELSE IF value.kind = "int" THEN value.n # 0
    ELSE IF value.kind = "float" THEN value.hundredths # 0
    ELSE IF value.kind = "str"
    THEN IF value.str = "" THEN FALSE ELSE lower_strip(value.str) \notin falsy_strings
    ELSE IF has_len(value) THEN len(value) > 0
    ELSE IF value.kind = "dict"
    THEN IF HasKey(value, "success") THEN bool(Lookup(value, "success"))
         ELSE IF HasKey(value, "status")
         THEN IF Lookup(value, "status").kind = "str"
              THEN lower_strip(Lookup(value, "status").str)
                      \notin {"error", "failed", "failure", "false"}
              ELSE bool(Lookup(value, "status"))
         ELSE IF HasKey(value, "error") THEN ~bool(Lookup(value, "error"))
         ELSE len(value) > 0
    ELSE TRUE

\* _extract_inputs: returns [ctx, inputs]
_extract_inputs(input, ctx, node_id) ==
    IF input.kind = "none" THEN [ctx |-> ctx, inputs |-> <<>>]
    ELSE IF input.kind = "dict"
    THEN [ctx |-> Log(ctx, "debug", "Processing dictionary input", node_id),
          inputs |-> [i \in DOMAIN input.pairs |-> input.pairs[i][2]]]
    ELSE IF input.kind = "list"
    THEN [ctx |-> Log(ctx, "debug", "Processing list input", node_id), inputs |-> input.items]
    ELSE [ctx |-> Log(ctx, "debug", "Processing single input value", node_id),
          inputs |-> <<input>>]

\* _perform_and_operation / _perform_or_operation: a loop over the inputs that
\* is left at the first input whose truthiness is stop; returns [ctx, ret]
RECURSIVE ShortCircuit(_, _, _, _, _)
ShortCircuit(inputs, ctx, node_id, stop, message) ==
    IF inputs = <<>> THEN [ctx |-> ctx, ret |-> ~stop]
    ELSE LET c1 == Log(ctx, "debug", "Input", node_id)
         IN IF _is_truthy(Head(inputs)) = stop
            THEN [ctx |-> Log(c1, "debug", message, node_id), ret |-> stop]
            ELSE ShortCircuit(Tail(inputs), c1, node_id, stop, message)

_perform_and_operation(inputs, ctx, node_id) ==
    IF inputs = <<>> THEN [ctx |-> ctx, ret |-> FALSE]
    ELSE ShortCircuit(inputs, ctx, node_id, FALSE, "AND operation short-circuited")

_perform_or_operation(inputs, ctx, node_id) ==
    IF inputs = <<>> THEN [ctx |-> ctx, ret |-> FALSE]
    ELSE ShortCircuit(inputs, ctx, node_id, TRUE, "OR operation short-circuited")

\* LogicalConnectorExecutor._execute_impl: returns [ctx, output]
LogicalConnector_execute_impl(node_id, operation, ctx, input) ==
    LET c1 == Log(ctx, "info", "Executing logical operation", node_id)
        c2 == Log(c1, "debug", "Input data type", node_id)
        ext == _extract_inputs(input, c2, node_id)
        inputs == ext.inputs
    IN IF inputs = <<>>
       THEN [ctx |-> Log(ext.ctx, "warning", "No inputs provided for logical operation", node_id),
             output |-> [kind |-> "connector_output", operation |-> operation,
                         inputs |-> <<>>, result |-> FALSE]]
       ELSE LET c3 == Log(ext.ctx, "debug", "Processing inputs", node_id)
                op == IF operation = "and" THEN _perform_and_operation(inputs, c3, node_id)
                      ELSE _perform_or_operation(inputs, c3, node_id)
            IN [ctx |-> Log(op.ctx, "info", "Logical result", node_id),
                output |-> [kind |-> "connector_output", operation |-> operation,
                            inputs |-> inputs, result |-> op.ret,
                            input_count |-> Len(inputs),
                            truthy_count |-> Len(SelectSeq(inputs, _is_truthy)),
                            falsy_count |-> Len(SelectSeq(inputs, LAMBDA v : ~_is_truthy(v)))]]

\* the values of test_truthiness_logic
TestValues ==
    {PyBool(TRUE), PyBool(FALSE), PyInt(1), PyInt(0), PyInt(0 - 1), PyFloat(314), PyFloat(0),
     PyStr("hello"), PyStr(""), PyStr("false"), PyStr("true"), PyStr("0"),
     PyList(<<PyInt(1), PyInt(2), PyInt(3)>>), PyList(<<>>),
     PyDict(<< <<"key", PyStr("value")>> >>), PyDict(<<>>), None,
     PyDict(<< <<"success", PyBool(TRUE)>> >>), PyDict(<< <<"success", PyBool(FALSE)>> >>),
     PyDict(<< <<"status", PyStr("ok")>> >>), PyDict(<< <<"status", PyStr("error")>> >>)}

\* the values a connector may receive from a node: those, two strings in
\* another case or with blanks, and a dict with an error entry
ConnectorValues ==
    TestValues \cup {PyStr("FALSE"), PyStr(" No "),
                     PyDict(<< <<"error", PyStr("timeout")>> >>)}

\* the input of the connector: one value, a list of values, or the dict that
\* _get_node_input_data builds from several predecessors (source id -> output)
SourceIds == <<"node_1", "node_2", "node_3", "node_4">>

ConnectorInputs ==
    ConnectorValues
    \cup {PyList(items) : items \in UNION {[1..n -> ConnectorValues] : n \in 1..MaxConnectorInputs}}
    \cup {PyDict([i \in 1..MaxConnectorInputs |-> <<SourceIds[i], v>>]) : v \in ConnectorValues}

ConnectorWorkflow == [IdleWorkflow EXCEPT !.types[1] = "logical_connector"]

InitConnector ==
    /\ PublisherInit
    /\ submitted = IdleSubmitted
    /\ workflow = [r \in RunIds |-> ConnectorWorkflow]
    /\ pc = [r \in RunIds |-> "call"]
    /\ input_data \in [RunIds -> ConnectorInputs]
    /\ active_executions = << >>
    /\ context = [r \in RunIds |-> NewContext]
    /\ execution_order = [r \in RunIds |-> <<>>]
    /\ node_results = [r \in RunIds |-> <<>>]
    /\ executed = [r \in RunIds |-> <<>>]
    /\ result = [r \in RunIds |-> None]
    /\ raised = [r \in RunIds |-> NoExc]
    /\ started = [r \in RunIds |-> None]
    /\ status = [r \in RunIds |-> None]

\* one call of _execute_impl on the node of the workflow, for either operation
CallConnector(r) ==
    /\ pc[r] = "call"
    /\ \E operation \in {"and", "or"} :
        LET ex == LogicalConnector_execute_impl(workflow[r].nodes[1], operation, context[r],
                                                input_data[r])
        IN /\ context' = [context EXCEPT ![r] = ex.ctx]
           /\ result' = [result EXCEPT ![r] = ex.output]
    /\ pc' = [pc EXCEPT ![r] = "returned"]
    /\ UNCHANGED <<workflow, input_data, active_executions, execution_order, node_results,
                   executed, raised>>
    /\ UNCHANGED <<started, status, deployVars>>

NextConnector == \E r \in RunIds : CallConnector(r)

SpecConnector == InitConnector /\ [][NextConnector]_vars

\* ------------------------------------------------- one call of execute
MaxPriorLogs == 8

\* the entries a context holds before the call
PriorLogs(k) ==
    [i \in 1..k |-> [level |-> "info", message |-> "Executing node", node_id |-> NoNode]]

\* everything the try block of execute may do
ExecutorBodies(node_id) ==
    {Completes, InvalidConfiguration, ImplError(node_id), ImplErrorNoMessage}

\* A caller about to call executor.execute(node, context, input_data): any
\* node, an input or none, a context that holds up to MaxPriorLogs entries
InitExecutor ==
    /\ PublisherInit
    /\ submitted = IdleSubmitted
    /\ workflow \in [RunIds -> {[nodes |-> <<n>>, edges |-> <<>>, types |-> DocumentTypes,
                                  invalid_config |-> {}] : n \in Ids}]
    /\ pc = [r \in RunIds |-> "call"]
    /\ input_data \in [RunIds -> {None, InitialInput}]
    /\ active_executions = << >>
    /\ context \in [RunIds -> {[node_results |-> << >>, logs |-> PriorLogs(k)] :
                                  k \in 0..MaxPriorLogs}]
    /\ execution_order = [r \in RunIds |-> <<>>]
    /\ node_results = [r \in RunIds |-> <<>>]
    /\ executed = [r \in RunIds |-> <<>>]
    /\ result = [r \in RunIds |-> None]
    /\ raised = [r \in RunIds |-> NoExc]
    /\ started = [r \in RunIds |-> None]
    /\ status = [r \in RunIds |-> None]

\* result = await executor.execute(node, context, input_data), with no
\* try/except around it: what it returned, or the exception that escaped
CallExecute(r) ==
    /\ pc[r] = "call"
    /\ \E body \in ExecutorBodies(workflow[r].nodes[1]) :
        LET node == workflow[r].nodes[1]
            ex == execute(node, context[r], input_data[r], body)
        IN /\ executed' = [executed EXCEPT ![r] = Append(@, [node |-> node,
                                                          input |-> input_data[r],
                                                          outcome |-> OutcomeOf(body),
                                                          body |-> body])]
           /\ context' = [context EXCEPT ![r] = ex.ctx]
           /\ node_results' = [node_results EXCEPT ![r] =
                                  IF ex.exc = NoExc THEN <<ex.res>> ELSE <<>>]
           /\ raised' = [raised EXCEPT ![r] = ex.exc]
    /\ pc' = [pc EXCEPT ![r] = "returned"]
    /\ UNCHANGED <<workflow, input_data, active_executions, execution_order, result>>
    /\ UNCHANGED <<started, status, deployVars>>

NextExecutor == \E r \in RunIds : CallExecute(r)

SpecExecutor == InitExecutor /\ [][NextExecutor]_vars

\* ------------------------------------------------- Dynamic Endpoint Publisher
MaxDeployNodes == 2
MaxDeployEdges == 2
MaxDeployments == 2
MaxInvocations == 2

DeployIds == 1..MaxDeployNodes

\* Configurations are opaque: "empty" is {}, "own" a configuration the caller
\* put on the node, "custom" a complete one stored by update_ai_node_config,
\* "partial" one that lacks required fields of the AI nodes.
BuiltinDefault(node_type) == <<"default", node_type>>
EmptyConfig == <<"empty", "">>
OwnConfig == <<"own", "">>
CustomConfig == <<"custom", "">>
PartialConfig == <<"partial", "">>

AITypes == {"groqllama", "claude4", "gemini", "chatbot"}

\* _get_default_config(node_type)
_get_default_config(node_type, custom) ==
    IF node_type \in DOMAIN custom THEN custom[node_type]
    ELSE IF node_type = "graphrag" THEN BuiltinDefault("graphrag")
    ELSE IF node_type \in AITypes THEN BuiltinDefault(node_type)
    ELSE EmptyConfig

\* update_ai_node_config(node_type, config): the dict of custom configs afterwards
update_ai_node_config(custom, node_type, config) ==
    IF node_type \notin (AITypes \cup {"graphrag"}) THEN custom
    ELSE IF node_type \in AITypes /\ config = PartialConfig THEN custom
    ELSE DictSet(custom, node_type, config)

\* reset_ai_node_config(node_type): the dict of custom configs afterwards
reset_ai_node_config(custom, node_type) ==
    IF node_type \in DOMAIN custom THEN DictDel(custom, node_type) ELSE custom

\* dependencies / dependents of _build_execution_graph; a source or target that
\* is no node id raises KeyError
RECURSIVE BuildDependencies(_, _)
BuildDependencies(ids, edges) ==
    IF edges = <<>>
    THEN [exc |-> NoExc, dependencies |-> [n \in ids |-> <<>>], dependents |-> [n \in ids |-> <<>>]]
    ELSE LET prev == BuildDependencies(ids, SubSeq(edges, 1, Len(edges) - 1))
             e == edges[Len(edges)]
         IN IF prev.exc # NoExc THEN prev
            ELSE IF e.target \notin ids \/ e.source \notin ids
                 THEN [prev EXCEPT !.exc = "KeyError"]
            ELSE [prev EXCEPT !.dependencies[e.target] = Append(@, e.source),
                              !.dependents[e.source] = Append(@, e.target)]

NodeIdsOf(nodes) == [i \in DOMAIN nodes |-> nodes[i].id]

\* _build_execution_graph(nodes, deployment_id)
_build_execution_graph(nodes, edges) ==
    LET keys == DictKeys(NodeIdsOf(nodes))
        b == BuildDependencies(Range(keys), edges)
    IN [exc |-> b.exc,
        node_ids |-> keys,
        dependencies |-> b.dependencies,
        dependents |-> b.dependents,
        start_nodes |-> SelectSeqOf(keys, {n \in Range(keys) : b.dependencies[n] = <<>>}),
        end_nodes |-> SelectSeqOf(keys, {n \in Range(keys) : b.dependents[n] = <<>>})]

\* ready_nodes with `any` in place of `all`: one executed dependency is enough
ReadyNodesAnyDependency(graph, executed_nodes) ==
    SelectSeqOf(graph.node_ids,
        {n \in Range(graph.node_ids) :
            n \notin executed_nodes
            /\ Range(graph.dependencies[n]) \cap executed_nodes # {}})

\* ready_nodes of one pass of the while loop of _execute_workflow_chain
ReadyNodes(graph, executed_nodes) ==
    SelectSeqOf(graph.node_ids,
        {n \in Range(graph.node_ids) :
            n \notin executed_nodes /\ Range(graph.dependencies[n]) \subseteq executed_nodes})

\* extract_output_data of _prepare_node_input
extract_output_data(output) ==
    IF output.kind = "NodeExecutionResult" THEN output.output_data ELSE output

\* node_outputs.get(node_id)
OutputsGet(node_outputs, node_id) ==
    IF node_id \in DOMAIN node_outputs THEN node_outputs[node_id] ELSE None

\* _prepare_node_input(node_id, dependency_ids, node_outputs, initial_input)
_prepare_node_input(dependency_ids, node_outputs, initial_input) ==
    IF dependency_ids = <<>> THEN initial_input
    ELSE IF Len(dependency_ids) = 1
    THEN extract_output_data(OutputsGet(node_outputs, dependency_ids[1]))
    ELSE [kind |-> "combined_input",
          dependency_outputs |->
              [d \in Range(dependency_ids) |-> extract_output_data(OutputsGet(node_outputs, d))],
          initial_input |-> initial_input]

\* The final output of _execute_workflow_chain
ChainFinalOutput(graph, order, node_outputs) ==
    IF graph.end_nodes # <<>>
    THEN OutputsGet(node_outputs, graph.end_nodes[Len(graph.end_nodes)])
    ELSE IF order # <<>>
    THEN OutputsGet(node_outputs, order[Len(order)])
    ELSE None

\* isinstance(output, dict) and output.get('error')
IsErrorDict(output) == output.kind = "error_dict"

\* for node_id in reversed(ids): the first node_outputs[node_id] that is there
\* and is no error dict
RECURSIVE LastNonError(_, _)
LastNonError(ids, node_outputs) ==
    IF ids = <<>> THEN None
    ELSE LET node_id == ids[Len(ids)]
         IN IF node_id \in DOMAIN node_outputs /\ ~IsErrorDict(node_outputs[node_id])
            THEN node_outputs[node_id]
            ELSE LastNonError(SubSeq(ids, 1, Len(ids) - 1), node_outputs)

\* The final output of _execute_workflow_chain_streaming
StreamFinalOutput(graph, order, node_outputs) ==
    LET from_end == IF graph.end_nodes # <<>>
                    THEN LastNonError(graph.end_nodes, node_outputs) ELSE None
    IN IF from_end = None /\ order # <<>> THEN LastNonError(order, node_outputs)
       ELSE from_end

\* isinstance(value, dict) and 'content' in value
IsDictWithContent(value) == value.kind = "model_response"

\* _serialize_node_output: a NodeExecutionResult gives its output_data, whose
\* values are strings and numbers; an error dict stays as it is
_serialize_node_output(output) ==
    IF output = None THEN None
    ELSE IF output.kind = "NodeExecutionResult" THEN output.output_data
    ELSE output

\* the execute handler: processed_final_output
processed_final_output(final_output) ==
    IF final_output # None /\ IsDictWithContent(final_output)
    THEN final_output.content ELSE final_output

\* the streaming chain: serialized_final_output
serialized_final_output(final_output) ==
    IF final_output # None /\ IsDictWithContent(final_output)
    THEN final_output.content
    ELSE IF final_output # None THEN _serialize_node_output(final_output) ELSE None

\* the events of the execute-stream route
Event(type, node_id) == [type |-> type, node_id |-> node_id]

\* the two workflow-level routes that execute a deployment
Routes == {"execute", "stream"}

\* ExecutorFactory.get_executor(node.type): it returns an executor, or raises
FactoryOutcomes == {NoExc, "ImportError"}

\* what _execute_impl of a node returns: a model response (a dict with a
\* content key) for the model-completion kinds, another value for the others
ImplOutput(node) ==
    IF node.type \in AITypes
    THEN [kind |-> "model_response", content |-> [kind |-> "text", node |-> node.id],
          model |-> node.type]
    ELSE OutputOf(node.id)

\* What _execute_single_node and _execute_single_node_streaming return: the
\* NodeExecutionResult of executor.execute, or the error dict of their except
\* branch when the factory raised
SingleNodeResult(node, factory, body) ==
    IF factory # NoExc
    THEN [kind |-> "error_dict", error |-> TRUE, node_id |-> node.id,
          error_message |-> Msg(factory, NoNode, <<>>)]
    ELSE [kind |-> "NodeExecutionResult", node_id |-> node.id,
          status |-> OutcomeOf(body),
          output_data |-> IF body.exc = NoExc THEN ImplOutput(node) ELSE None,
          error_message |-> body.msg]

\* the index of the node with this id in the snapshot (node_map keeps the last)
NodeIndex(nodes, node_id) ==
    CHOOSE i \in DOMAIN nodes :
        nodes[i].id = node_id /\ \A j \in DOMAIN nodes : nodes[j].id = node_id => j <= i

\* ---- inputs of the Publisher
ClaudeEmpty == [type |-> "claude4", config |-> EmptyConfig]
ClaudeOwn == [type |-> "claude4", config |-> OwnConfig]
GraphragEmpty == [type |-> "graphrag", config |-> EmptyConfig]
DocumentEmpty == [type |-> "document", config |-> EmptyConfig]

\* The type and configuration of the i-th node of a submitted workflow: all
\* nodes of one kind, or a model-completion node among document nodes
KindPatterns ==
    {[i \in 1..MaxDeployNodes |-> ClaudeEmpty],
     [i \in 1..MaxDeployNodes |-> GraphragEmpty],
     [i \in 1..MaxDeployNodes |-> IF i = 1 THEN ClaudeOwn ELSE DocumentEmpty],
     [i \in 1..MaxDeployNodes |-> IF i = 1 THEN DocumentEmpty ELSE ClaudeEmpty]}

DeployNodeLists ==
    {[i \in 1..n |-> [id |-> i, type |-> k[i].type, config |-> k[i].config]] :
        n \in 1..MaxDeployNodes, k \in KindPatterns}
    \cup {[i \in 1..n |-> [id |-> n + 1 - i, type |-> k[i].type, config |-> k[i].config]] :
        n \in 1..MaxDeployNodes, k \in KindPatterns}

DeployEdges == [source : DeployIds, target : DeployIds]
DeployEdgeRank(e) == (e.source - 1) * MaxDeployNodes + e.target

DeployEdgeLists ==
    {s \in UNION {[1..n -> DeployEdges] : n \in 0..MaxDeployEdges} :
        \/ \A i \in 1..(Len(s) - 1) : DeployEdgeRank(s[i]) <= DeployEdgeRank(s[i + 1])
        \/ \A i \in 1..(Len(s) - 1) : DeployEdgeRank(s[i]) >= DeployEdgeRank(s[i + 1])}

DeployWorkflows == [nodes : DeployNodeLists, edges : DeployEdgeLists]

UpdateTypes == {"claude4", "document"}
UpdateConfigs == {CustomConfig, PartialConfig}

InitDeploy ==
    /\ PublisherInit
    /\ submitted \in DeployWorkflows
    /\ workflow = [r \in RunIds |-> IdleWorkflow]
    /\ pc = [r \in RunIds |-> "unused"]
    /\ input_data = [r \in RunIds |-> InitialInput]
    /\ active_executions = << >>
    /\ context = [r \in RunIds |-> NewContext]
    /\ execution_order = [r \in RunIds |-> <<>>]
    /\ node_results = [r \in RunIds |-> <<>>]
    /\ executed = [r \in RunIds |-> <<>>]
    /\ result = [r \in RunIds |-> None]
    /\ raised = [r \in RunIds |-> NoExc]
    /\ started = [r \in RunIds |-> None]
    /\ status = [r \in RunIds |-> None]

\* A route registered on a router: the router ("deployment" has the prefix
\* /api/deployed/{deployment_id}, "direct" has none), the method, and the path
\* /nodes/{node}/{leaf}, or /{leaf} for a workflow-level route
Endpoint(router, method, node, leaf) ==
    [router |-> router, method |-> method, node |-> node, leaf |-> leaf]

\* a node's action route given to every node that is no graph-query node
action_route_completion(node_type) ==
    IF node_type = "graphrag" THEN <<"query">> ELSE <<"completion">>

\* the type-specific action route of _create_node_endpoints
action_route(node_type) ==
    IF node_type \in AITypes THEN <<"completion">>
    ELSE IF node_type = "graphrag" THEN <<"query">>
    ELSE <<>>

\* _create_node_endpoints(node, router, url_prefix)
_create_node_endpoints(node, router) ==
    [i \in DOMAIN action_route(node.type) |->
        Endpoint(router, "POST", node.id, action_route(node.type)[i])]
    \o <<Endpoint(router, "GET", node.id, "status")>>

\* workflow-level routes without the streaming route
_create_workflow_endpoints_no_stream(router) ==
    <<Endpoint(router, "GET", NoNode, "health"),
      Endpoint(router, "POST", NoNode, "execute")>>

\* _create_workflow_endpoints(nodes, router, deployment_id)
_create_workflow_endpoints(router) ==
    <<Endpoint(router, "GET", NoNode, "health"),
      Endpoint(router, "POST", NoNode, "execute"),
      Endpoint(router, "POST", NoNode, "execute-stream")>>

\* for node in workflow_nodes: the endpoints on the deployment router, then
\* those on the direct router
RECURSIVE NodeEndpoints(_)
NodeEndpoints(nodes) ==
    IF nodes = <<>> THEN <<>>
    ELSE _create_node_endpoints(Head(nodes), "deployment")
         \o _create_node_endpoints(Head(nodes), "direct")
         \o NodeEndpoints(Tail(nodes))

\* generate_routes_from_workflow: the endpoints it registers and returns
generate_routes_from_workflow(nodes) ==
    NodeEndpoints(nodes) \o _create_workflow_endpoints("deployment")

\* _map_node_type(frontend_type): type_mapping.get(frontend_type.lower(), NodeType.API)
_map_node_type(frontend_type) ==
    IF frontend_type \in {"groqllama", "claude4", "gemini", "chatbot", "graphrag",
                          "embeddings", "document", "image", "search", "api", "vapi"}
    THEN frontend_type
    ELSE "api"

\* receive_workflow: the WorkflowNode objects it builds from the nodes submitted
workflow_nodes(nodes) ==
    [i \in DOMAIN nodes |-> [nodes[i] EXCEPT !.type = _map_node_type(@)]]

\* receive_workflow + generate_routes_from_workflow: a new deployment of the
\* submitted workflow, with its own WorkflowNode objects
Deploy ==
    LET d == Cardinality(DOMAIN registered_routes) + 1
        nodes == workflow_nodes(submitted.nodes)
    IN /\ d <= MaxDeployments
       /\ chain.phase \in {"idle", "done"}
       /\ registered_routes' = DictSet(registered_routes, d,
                                   [nodes |-> nodes, edges |-> submitted.edges,
                                    endpoints |-> generate_routes_from_workflow(nodes)])
       /\ deployed_config' = DictSet(deployed_config, d,
              [i \in DOMAIN nodes |->
                  IF nodes[i].config # EmptyConfig THEN nodes[i].config
                  ELSE _get_default_config(nodes[i].type, custom_ai_configs)])
       /\ used_config' = DictSet(used_config, d, [i \in DOMAIN submitted.nodes |-> {}])
       /\ UNCHANGED <<custom_ai_configs, submitted, chain, invocations>>
       /\ UNCHANGED execVars

\* the update and reset routes of the stored default configurations
UpdateConfig ==
    /\ invocations < MaxInvocations
    /\ \E t \in UpdateTypes, c \in UpdateConfigs :
          custom_ai_configs' = update_ai_node_config(custom_ai_configs, t, c)
    /\ UNCHANGED <<registered_routes, submitted, chain, invocations, deployed_config, used_config>>
    /\ UNCHANGED execVars

ResetConfig ==
    /\ invocations < MaxInvocations
    /\ \E t \in UpdateTypes : custom_ai_configs' = reset_ai_node_config(custom_ai_configs, t)
    /\ UNCHANGED <<registered_routes, submitted, chain, invocations, deployed_config, used_config>>
    /\ UNCHANGED execVars

\* a loop that is left without a warning
loop_left_silently(ch) == FALSE

\* `if not ready_nodes:` is reached while nodes remain unexecuted: the branch
\* that warns and breaks
loop_stalled(ch) == Cardinality(ch.executed_nodes) < Len(ch.graph.node_ids)

\* a stream that ends with the warning when the loop stalled
events_until_warning(stalled) ==
    IF stalled THEN <<Event("warning", NoNode)>> ELSE <<Event("workflow_complete", NoNode)>>

\* what the streaming chain yields from the end of its loop: the warning when
\* the loop stalled, then the workflow_complete event
events_after_loop(stalled) ==
    (IF stalled THEN <<Event("warning", NoNode)>> ELSE <<>>)
    \o <<Event("workflow_complete", NoNode)>>

\* _execute_workflow_chain and _execute_workflow_chain_streaming from the point
\* where the outputs so far are recorded up to the next await of
\* executor.execute, or up to the return of the route.  ch.todo lists the nodes
\* left in the current for loop; factory is what get_executor does for the next
\* node.
RECURSIVE ProceedChain(_, _, _, _)
ProceedChain(ch, routes, custom, factory) ==
    IF ch.todo # <<>>
    THEN \* the single-node function up to `await executor.execute(node, ...)`
         LET d == ch.deployment_id
             node_id == Head(ch.todo)
             k == NodeIndex(routes[d].nodes, node_id)
             node == routes[d].nodes[k]
             \* the execute route resolves the config after get_executor, inside
             \* the try block; the stream route resolves it before the try block
             resolves == ch.route = "stream" \/ factory = NoExc
             cfg == IF resolves /\ node.config = EmptyConfig
                    THEN _get_default_config(node.type, custom)
                    ELSE node.config
             input == IF ch.phase = "start" THEN ch.initial_input
                      ELSE _prepare_node_input(ch.graph.dependencies[node_id],
                                               ch.node_outputs, ch.initial_input)
             ev == IF ch.route = "stream" THEN <<Event("node_start", node_id)>> ELSE <<>>
         IN [chain |-> [ch EXCEPT !.awaiting = node_id, !.input = input,
                                  !.factory = factory, !.events = @ \o ev],
             routes |-> [routes EXCEPT ![d].nodes[k].config = cfg],
             call |-> IF factory = NoExc THEN <<d, k, cfg>> ELSE <<>>]
    ELSE IF Cardinality(ch.executed_nodes) < Len(ch.graph.node_ids)
            /\ ReadyNodes(ch.graph, ch.executed_nodes) # <<>>
    THEN ProceedChain([ch EXCEPT !.phase = "loop",
                                 !.todo = ReadyNodes(ch.graph, ch.executed_nodes)],
                      routes, custom, factory)
    ELSE LET stalled == loop_stalled(ch)
             final_output == IF ch.route = "stream"
                             THEN StreamFinalOutput(ch.graph, ch.execution_order,
                                                    ch.node_outputs)
                             ELSE ChainFinalOutput(ch.graph, ch.execution_order,
                                                   ch.node_outputs)
             presented == IF ch.route = "stream"
                          THEN serialized_final_output(final_output)
                          ELSE processed_final_output(final_output)
             ev == IF ch.route = "stream" THEN events_after_loop(stalled) ELSE <<>>
         IN [chain |-> [ch EXCEPT !.phase = "done", !.awaiting = NoNode, !.input = None,
                                  !.factory = NoExc,
                                  !.warning = stalled,
                                  !.final_output = final_output,
                                  !.presented = presented,
                                  !.events = @ \o ev],
             routes |-> routes,
             call |-> <<>>]

\* the effect of ProceedChain on the state
ApplyProceed(p) ==
    /\ chain' = p.chain
    /\ registered_routes' = p.routes
    /\ used_config' = IF p.call = <<>> THEN used_config
                      ELSE [used_config EXCEPT ![p.call[1]][p.call[2]] = @ \cup {p.call[3]}]

\* POST /api/deployed/{deployment_id}/execute and .../execute-stream: the
\* handler up to its first await of executor.execute
RouteBegin(d, route) ==
    /\ d \in DOMAIN registered_routes
    /\ chain.phase \in {"idle", "done"}
    /\ invocations < MaxInvocations
    /\ invocations' = invocations + 1
    /\ \E factory \in FactoryOutcomes :
        LET g == _build_execution_graph(registered_routes[d].nodes, registered_routes[d].edges)
            before == IF route = "stream"
                      THEN <<Event("start", NoNode), Event("building_graph", NoNode)>>
                      ELSE <<>>
            after == IF route = "stream"
                     THEN <<Event("graph_built", NoNode), Event("execution_start", NoNode)>>
                     ELSE <<>>
            ch == [phase |-> "start", route |-> route, deployment_id |-> d, graph |-> g,
                   initial_input |-> InitialInput, todo |-> g.start_nodes,
                   executed_nodes |-> {}, node_outputs |-> << >>, execution_order |-> <<>>,
                   awaiting |-> NoNode, input |-> None, factory |-> NoExc,
                   warning |-> FALSE, final_output |-> None, presented |-> None,
                   events |-> before \o after, exc |-> NoExc]
        IN IF g.exc # NoExc
           THEN \* the execute handler lets the exception go; the stream handler
                \* catches it and ends the stream with an error event
                /\ chain' = [ch EXCEPT !.phase = "done", !.todo = <<>>,
                                       !.exc = IF route = "stream" THEN NoExc ELSE g.exc,
                                       !.events = IF route = "stream"
                                                  THEN before \o <<Event("error", NoNode)>>
                                                  ELSE <<>>]
                /\ UNCHANGED <<registered_routes, used_config>>
           ELSE ApplyProceed(ProceedChain(ch, registered_routes, custom_ai_configs, factory))
    /\ UNCHANGED <<custom_ai_configs, submitted, deployed_config>>
    /\ UNCHANGED execVars

\* The single-node function returns for the awaited node: the output is
\* recorded (and its node_complete event sent) and the chain goes on to the
\* next node
RouteStep ==
    /\ chain.phase \in {"start", "loop"}
    /\ chain.awaiting # NoNode
    /\ \E body \in {Completes, ImplError(chain.awaiting)}, factory \in FactoryOutcomes :
        LET node_id == chain.awaiting
            d == chain.deployment_id
            node == registered_routes[d].nodes[NodeIndex(registered_routes[d].nodes, node_id)]
            res == SingleNodeResult(node, chain.factory, body)
            ev == IF chain.route = "stream" THEN <<Event("node_complete", node_id)>> ELSE <<>>
            ch == [chain EXCEPT !.todo = Tail(@),
                                !.executed_nodes = @ \cup {node_id},
                                !.node_outputs = DictSet(@, node_id, res),
                                !.execution_order = Append(@, node_id),
                                !.events = @ \o ev]
        IN ApplyProceed(ProceedChain(ch, registered_routes, custom_ai_configs, factory))
    /\ UNCHANGED <<custom_ai_configs, submitted, invocations, deployed_config>>
    /\ UNCHANGED execVars

NextDeploy ==
    \/ Deploy
    \/ UpdateConfig
    \/ ResetConfig
    \/ \E d \in 1..MaxDeployments, route \in Routes : RouteBegin(d, route)
    \/ RouteStep

SpecDeploy == InitDeploy /\ [][NextDeploy]_vars

\* ------------------------------------------------- deployments and their routes
MaxPublishNodes == 2

\* the node types of the workflows submitted to the deploy route: the values
\* of NodeType
PublishTypes ==
    {"groqllama", "claude4", "gemini", "chatbot", "graphrag", "embeddings", "document",
     "image", "search", "api", "vapi", "logical_connector"}

\* nodes 1..n of any types, and lists whose nodes all carry the id 1
PublishNodeLists ==
    UNION {{[i \in 1..n |-> [id |-> i, type |-> t[i], config |-> EmptyConfig]] :
               t \in [1..n -> PublishTypes]} : n \in 1..MaxPublishNodes}
    \cup UNION {{[i \in 1..n |-> [id |-> 1, type |-> t[i], config |-> EmptyConfig]] :
               t \in [1..n -> {"claude4", "document"}]} : n \in 2..MaxPublishNodes}

PublishWorkflows == [nodes : PublishNodeLists, edges : {<<>>}]

InitPublish ==
    /\ PublisherInit
    /\ submitted \in PublishWorkflows
    /\ workflow = [r \in RunIds |-> IdleWorkflow]
    /\ pc = [r \in RunIds |-> "unused"]
    /\ input_data = [r \in RunIds |-> InitialInput]
    /\ active_executions = << >>
    /\ context = [r \in RunIds |-> NewContext]
    /\ execution_order = [r \in RunIds |-> <<>>]
    /\ node_results = [r \in RunIds |-> <<>>]
    /\ executed = [r \in RunIds |-> <<>>]
    /\ result = [r \in RunIds |-> None]
    /\ raised = [r \in RunIds |-> NoExc]
    /\ started = [r \in RunIds |-> None]
    /\ status = [r \in RunIds |-> None]

NextPublish == Deploy

SpecPublish == InitPublish /\ [][NextPublish]_vars

\* ------------------------------------------------- one invocation of a route
MaxRouteNodes == 3
MaxRouteEdges == 2

\* The nodes of a deployed workflow: ids 1..n listed in ascending order or, for
\* the largest workflow, in descending order; all model-completion nodes or
\* all document nodes
RouteNodeLists ==
    {[i \in 1..n |-> [id |-> i, type |-> k.type, config |-> k.config]] :
        n \in 1..MaxRouteNodes, k \in {ClaudeEmpty, DocumentEmpty}}
    \cup {[i \in 1..MaxRouteNodes |->
              [id |-> MaxRouteNodes + 1 - i, type |-> k.type, config |-> k.config]] :
            k \in {ClaudeEmpty, DocumentEmpty}}

RouteEdges == [source : 1..MaxRouteNodes, target : 1..MaxRouteNodes]
RouteEdgeRank(e) == (e.source - 1) * MaxRouteNodes + e.target

\* edge lists in ascending or descending order, repeated edges included
RouteEdgeLists ==
    {s \in UNION {[1..n -> RouteEdges] : n \in 0..MaxRouteEdges} :
        \/ \A i \in 1..(Len(s) - 1) : RouteEdgeRank(s[i]) <= RouteEdgeRank(s[i + 1])
        \/ \A i \in 1..(Len(s) - 1) : RouteEdgeRank(s[i]) >= RouteEdgeRank(s[i + 1])}

RouteWorkflows == [nodes : RouteNodeLists, edges : RouteEdgeLists]

InitRoute ==
    /\ PublisherInit
    /\ submitted \in RouteWorkflows
    /\ workflow = [r \in RunIds |-> IdleWorkflow]
    /\ pc = [r \in RunIds |-> "unused"]
    /\ input_data = [r \in RunIds |-> InitialInput]
    /\ active_executions = << >>
    /\ context = [r \in RunIds |-> NewContext]
    /\ execution_order = [r \in RunIds |-> <<>>]
    /\ node_results = [r \in RunIds |-> <<>>]
    /\ executed = [r \in RunIds |-> <<>>]
    /\ result = [r \in RunIds |-> None]
    /\ raised = [r \in RunIds |-> NoExc]
    /\ started = [r \in RunIds |-> None]
    /\ status = [r \in RunIds |-> None]

\* the submitted workflow is deployed, once
DeployOnce == registered_routes = << >> /\ Deploy

\* one of the two routes of the deployment is invoked, once
InvokeOnce == invocations = 0 /\ \E route \in Routes : RouteBegin(1, route)

NextRoute == DeployOnce \/ InvokeOnce \/ RouteStep

SpecRoute == InitRoute /\ [][NextRoute]_vars

\* ------------------------------------------------- graph notions of the claims
Succ(E, S) == {e.target : e \in {x \in E : x.source \in S}}

RECURSIVE Closure(_, _)
Closure(E, S) == LET T == S \cup Succ(E, S) IN IF T = S THEN S ELSE Closure(E, T)

\* the nodes downstream of n (reachable over at least one edge)
Downstream(E, n) == Closure(E, Succ(E, {n}))

\* the edge set contains a directed cycle (a self-loop is one)
Cyclic(E) == \E e \in E : e.source \in Downstream(E, e.source)

\* no duplicate node id
DistinctIds(wf) == Len(wf.nodes) = Cardinality(Range(wf.nodes))

\* every edge joins two nodes of the workflow
EdgesOverNodes(wf) ==
    \A e \in Range(wf.edges) : e.source \in Range(wf.nodes) /\ e.target \in Range(wf.nodes)

\* the position of node id n in a list of ids (0 when absent)
Pos(order, n) == IF n \in Range(order) THEN CHOOSE i \in DOMAIN order : order[i] = n ELSE 0

\* the run passed validation and entered the node loop
PassedValidation(r) == execution_order[r] # <<>>

\* the indices of the edges that target n
IncomingEdges(wf, n) == {i \in DOMAIN wf.edges : wf.edges[i].target = n}
Predecessors(wf, n) == {wf.edges[i].source : i \in IncomingEdges(wf, n)}

\* the calls of executor.execute made for node n in run r
CallsOf(r, n) == {i \in DOMAIN executed[r] : executed[r][i].node = n}

\* the NodeExecutionResults of node n in the list node_results of run r
ResultsOf(r, n) == {i \in DOMAIN node_results[r] : node_results[r][i].node_id = n}

\* the run has been handed its workflow, or has just computed its execution order
\* (the workflow of a run never changes)
BeforeNodeLoop(r) == pc[r] = "start" \/ (pc[r] = "execute" /\ node_results[r] = <<>>)

\* C1: for a workflow with distinct node ids whose edges form an acyclic graph
\* over its nodes, _topological_sort returns (without raising) a list that holds
\* every node exactly once and in which the source of every edge comes before its
\* target; that list is the execution order of the run.
ThmC1 ==
    \A r \in RunIds :
        LET wf == workflow[r]
            t == _topological_sort(wf.nodes, wf.edges)
        IN (BeforeNodeLoop(r) /\ DistinctIds(wf) /\ EdgesOverNodes(wf)
               /\ ~Cyclic(Range(wf.edges))) =>
              /\ t.exc = NoExc
              /\ Len(t.order) = Len(wf.nodes)
              /\ Range(t.order) = Range(wf.nodes)
              /\ \A e \in Range(wf.edges) : Pos(t.order, e.source) < Pos(t.order, e.target)
              /\ (pc[r] = "execute" => execution_order[r] = t.order)

WitC1 ==
    /\ pc[1] = "execute"
    /\ execution_order[1] = <<3, 1, 2>>
    /\ Len(workflow[1].edges) = 3

\* C2: on a workflow whose edges join nodes of the workflow, _has_cycles returns
\* true exactly when the edge set contains a directed cycle (self-loops included),
\* whatever the order in which the unvisited set is iterated, also for a cycle
\* that no node without incoming edges reaches.  (Stated of the workflow each
\* run is handed; the workflow of a run never changes.)
ThmC2 ==
    \A r \in RunIds :
        LET wf == workflow[r]
        IN (pc[r] = "start" /\ EdgesOverNodes(wf)) =>
              \A iter_order \in IterOrders(Range(wf.nodes)) :
                  LET h == _has_cycles(wf.nodes, wf.edges, iter_order)
                  IN h.exc = NoExc /\ (h.ret <=> Cyclic(Range(wf.edges)))

\* a cycle 2 -> 3 -> 2 beside the only node without incoming edges, 1, has been
\* detected by the validation of a run
WitC2 ==
    /\ pc[1] = "done"
    /\ workflow[1].nodes = <<1, 2, 3>>
    /\ Range(workflow[1].edges) = {[source |-> 2, target |-> 3], [source |-> 3, target |-> 2]}
    /\ \A iter_order \in IterOrders({1, 2, 3}) :
          _has_cycles(workflow[1].nodes, workflow[1].edges, iter_order).ret
    /\ result[1].status = "failed"

\* a cycle error is among the errors of a result
CycleErrorReported(res) ==
    \E i \in DOMAIN res.errors :
        \/ res.errors[i].msg = "Workflow contains cycles - cannot determine execution order"
        \/ \E j \in DOMAIN res.errors[i].detail :
              res.errors[i].detail[j].msg = "Workflow contains cycles"

\* C3: a run of a workflow whose edges (all joining nodes of the workflow)
\* contain a cycle never invokes a node executor, and it returns a result with
\* status failed, no node results and a cycle error.
ThmC3 ==
    \A r \in RunIds :
        (EdgesOverNodes(workflow[r]) /\ Cyclic(Range(workflow[r].edges))) =>
            /\ executed[r] = <<>>
            /\ node_results[r] = <<>>
            /\ pc[r] = "done" =>
                  /\ raised[r] = NoExc
                  /\ result[r].kind = "WorkflowExecutionResult"
                  /\ result[r].status = "failed"
                  /\ result[r].node_results = <<>>
                  /\ CycleErrorReported(result[r])

\* the run of A -> B -> A has returned
WitC3 ==
    /\ pc[1] = "done"
    /\ workflow[1].nodes = <<1, 2>>
    /\ workflow[1].edges = <<[source |-> 1, target |-> 2], [source |-> 2, target |-> 1]>>
    /\ result[1].status = "failed"
    /\ CycleErrorReported(result[1])

\* C4: a node with exactly one incoming edge is executed with the output_data of
\* the NodeExecutionResult of its single predecessor as input: the unwrapped
\* value, not a map and not the result record.
ThmC4 ==
    \A r \in RunIds : \A i \in DOMAIN executed[r] :
        LET n == executed[r][i].node
            inc == IncomingEdges(workflow[r], n)
        IN Cardinality(inc) = 1 =>
              \E p \in Predecessors(workflow[r], n) : \E j \in ResultsOf(r, p) :
                  /\ j < i
                  /\ executed[r][i].input = node_results[r][j].output_data
                  /\ executed[r][i].input.kind \in {"output", "none"}

\* doc-1 -> ai-1: node 2 has been executed with the output of node 1
WitC4 ==
    /\ workflow[1].nodes = <<1, 2>>
    /\ workflow[1].edges = <<[source |-> 1, target |-> 2]>>
    /\ Len(executed[1]) = 2
    /\ executed[1][1].outcome = "completed"
    /\ executed[1][2].input = OutputOf(1)

\* C5: a node with two or more incoming edges is executed with a map as input
\* whose keys are the ids of its predecessors and whose values are their
\* outputs; the map depends only on the set of incoming edges, not on the order
\* in which the edges are listed.
ThmC5 ==
    \A r \in RunIds : \A i \in DOMAIN executed[r] :
        LET n == executed[r][i].node
            inc == IncomingEdges(workflow[r], n)
            preds == Predecessors(workflow[r], n)
            input == executed[r][i].input
        IN Cardinality(inc) >= 2 =>
              /\ input.kind = "dict"
              /\ DOMAIN input.items = preds
              /\ \A p \in preds : \E j \in ResultsOf(r, p) :
                    j < i /\ input.items[p] = node_results[r][j].output_data

\* b, c -> d with the edge of c listed before the edge of b: d got {b: .., c: ..}
WitC5 ==
    /\ workflow[1].nodes = <<1, 2, 3>>
    /\ workflow[1].edges = <<[source |-> 2, target |-> 3], [source |-> 1, target |-> 3]>>
    /\ Len(executed[1]) = 3
    /\ executed[1][3].node = 3
    /\ executed[1][3].input.kind = "dict"
    /\ executed[1][3].input.items = (1 :> OutputOf(1) @@ 2 :> OutputOf(2))

\* C6: when the executor of a node x failed in a run that passed validation,
\* every node that is not downstream of x has been executed exactly once when the
\* run returns, reports completed if its own executor succeeded, and the status
\* of the run is failed.
ThmC6 ==
    \A r \in RunIds :
        (pc[r] = "done" /\ PassedValidation(r)) =>
            \A k \in DOMAIN executed[r] :
                executed[r][k].outcome = "failed" =>
                    /\ result[r].status = "failed"
                    /\ \A n \in Range(workflow[r].nodes) :
                          n \notin Downstream(Range(workflow[r].edges), executed[r][k].node) =>
                              /\ Cardinality(CallsOf(r, n)) = 1
                              /\ Cardinality({j \in DOMAIN result[r].node_results :
                                                 result[r].node_results[j].node_id = n}) = 1
                              /\ \A j \in DOMAIN result[r].node_results :
                                    result[r].node_results[j].node_id = n =>
                                        \A c \in CallsOf(r, n) :
                                            (result[r].node_results[j].status = "completed")
                                               <=> (executed[r][c].outcome = "completed")

\* node 1 failed, and the nodes 2 and 3, which do not depend on it, completed
WitC6 ==
    /\ pc[1] = "done"
    /\ workflow[1].nodes = <<1, 2, 3>>
    /\ workflow[1].edges = <<[source |-> 2, target |-> 3]>>
    /\ Len(executed[1]) = 3
    /\ executed[1][1].node = 1 /\ executed[1][1].outcome = "failed"
    /\ executed[1][2].outcome = "completed"
    /\ executed[1][3].outcome = "completed"
    /\ result[1].status = "failed"

\* the sinks of a workflow: the nodes without outgoing edge
Sinks(wf) == {n \in Range(wf.nodes) : \A e \in Range(wf.edges) : e.source # n}

\* the output of the last call, among the calls of the nodes in S, whose
\* executor completed; None when there is none
LastCompletedOutput(r, S) ==
    LET ok == {i \in DOMAIN executed[r] :
                  executed[r][i].node \in S /\ executed[r][i].outcome = "completed"}
    IN IF ok = {} THEN None
       ELSE OutputOf(executed[r][CHOOSE i \in ok : \A j \in ok : j <= i].node)

\* C7 as stated: final_output is the output of the last sink that completed, or
\* else of the last node that completed, or else absent.
CexC7 ==
    \A r \in RunIds :
        (pc[r] = "done" /\ PassedValidation(r)) =>
            result[r].final_output =
                IF LastCompletedOutput(r, Sinks(workflow[r])) # None
                THEN LastCompletedOutput(r, Sinks(workflow[r]))
                ELSE LastCompletedOutput(r, Range(workflow[r].nodes))

\* C7 (amended): final_output is the output of the last node in execution order
\* that completed, whether or not it is a sink, and it is absent when no node
\* completed (also when no node was executed).
ThmC7 ==
    \A r \in RunIds :
        pc[r] = "done" =>
            result[r].final_output = LastCompletedOutput(r, Range(workflow[r].nodes))

\* A -> B, A -> C with B failed and C completed: the final output is C's
WitC7 ==
    /\ pc[1] = "done"
    /\ workflow[1].nodes = <<1, 2, 3>>
    /\ workflow[1].edges = <<[source |-> 1, target |-> 2], [source |-> 1, target |-> 3]>>
    /\ Len(executed[1]) = 3
    /\ executed[1][2].node = 2 /\ executed[1][2].outcome = "failed"
    /\ executed[1][3].node = 3 /\ executed[1][3].outcome = "completed"
    /\ result[1].final_output = OutputOf(3)

\* C8 as stated: whatever update_ai_node_config and reset_ai_node_config did
\* after a deployment was created, every node of the deployment is executed, on
\* every invocation of its routes, with the configuration it had when the
\* deployment was created (its own, or the default of its type at that time).
CexC8 ==
    \A d \in DOMAIN used_config : \A k \in DOMAIN used_config[d] :
        used_config[d][k] \subseteq {deployed_config[d][k]}

\* C9: when execute_workflow is over, no exception has escaped it and it has
\* returned a WorkflowExecutionResult with a status of completed or failed.
ThmC9 ==
    \A r \in RunIds :
        pc[r] = "done" =>
            /\ raised[r] = NoExc
            /\ result[r].kind = "WorkflowExecutionResult"
            /\ result[r].status \in {"completed", "failed"}
            /\ result[r].execution_id = r

\* a workflow with a dangling edge made the validation raise KeyError, and the
\* run still returned a result
WitC9 ==
    /\ pc[1] = "done"
    /\ ~EdgesOverNodes(workflow[1])
    /\ result[1].kind = "WorkflowExecutionResult"
    /\ result[1].errors = <<Msg("KeyError", NoNode, <<>>)>>

\* C10: the status of the result of a run that passed validation is failed when
\* the executor of at least one node failed, and completed otherwise.
ThmC10 ==
    \A r \in RunIds :
        (pc[r] = "done" /\ PassedValidation(r)) =>
            /\ result[r].status = "failed" <=>
                  \E j \in DOMAIN result[r].node_results :
                      result[r].node_results[j].status = "failed"
            /\ result[r].status = "completed" <=>
                  \A k \in DOMAIN executed[r] : executed[r][k].outcome = "completed"

\* a run of three nodes whose first node failed and whose last node completed
WitC10 ==
    /\ pc[1] = "done"
    /\ Len(executed[1]) = 3
    /\ executed[1][1].outcome = "failed"
    /\ executed[1][3].outcome = "completed"
    /\ result[1].status = "failed"

\* the validation message: "Workflow validation failed" joined with the list of
\* errors that _validate_workflow returned
ValidationMessage(m) == m.msg = "Workflow validation failed" /\ m.detail # <<>>

\* C11 as stated: a run of a workflow with duplicate node ids, or with an edge
\* whose source or target is not a node, invokes no executor and returns a
\* failed result with no node results and the validation message in errors.
CexC11 ==
    \A r \in RunIds :
        (pc[r] = "done" /\ (~DistinctIds(workflow[r]) \/ ~EdgesOverNodes(workflow[r]))) =>
            /\ executed[r] = <<>>
            /\ raised[r] = NoExc
            /\ result[r].status = "failed"
            /\ result[r].node_results = <<>>
            /\ \E i \in DOMAIN result[r].errors : ValidationMessage(result[r].errors[i])

\* C12 as stated: _validate_workflow returns its list of errors and raises
\* nothing, whatever duplicate ids, dangling edges and cycles the workflow has.
CexC12 ==
    \A r \in RunIds :
        pc[r] = "validate" =>
            \A iter_order \in IterOrders(Range(workflow[r].nodes)) :
                \A graphrag_errors \in GraphragErrors :
                    _validate_workflow(workflow[r], context[r], iter_order,
                                       graphrag_errors).exc = NoExc

\* the error-level entries of a list of logs
ErrorLogs(logs) == SelectSeq(logs, LAMBDA l : l.level = "error")

\* C13: a call of execute lets no exception escape; when validate_config is
\* false or _execute_impl raises, the context gains one error-level entry for
\* the node and the call returns a failed NodeExecutionResult that carries the
\* error message (and that entry among its logs).
ThmC13 ==
    \A r \in RunIds :
        pc[r] = "returned" =>
            /\ raised[r] = NoExc
            /\ Len(node_results[r]) = 1
            /\ LET call == executed[r][1]
                   res == node_results[r][1]
                   logs == context[r].logs
               IN /\ res.node_id = call.node
                  /\ call.body.exc = NoExc =>
                        /\ res.status = "completed"
                        /\ ErrorLogs(logs) = <<>>
                  /\ call.body.exc # NoExc =>
                        /\ res.status = "failed"
                        /\ res.error_message = call.body.msg
                        /\ res.output_data = None
                        /\ Len(ErrorLogs(logs)) = 1
                        /\ logs[Len(logs)].level = "error"
                        /\ logs[Len(logs)].node_id = call.node
                        /\ res.logs # <<>>
                        /\ res.logs[Len(res.logs)] = logs[Len(logs)]

\* validate_config was false for a call made with a context of more than ten
\* entries: a failed result came back with the last ten of them
WitC13 ==
    /\ pc[1] = "returned"
    /\ executed[1][1].body = InvalidConfiguration
    /\ raised[1] = NoExc
    /\ node_results[1][1].status = "failed"
    /\ Len(context[1].logs) > NodeLogTail
    /\ Len(node_results[1][1].logs) = NodeLogTail

\* C14 as stated: after a run that passed validation, errors lists exactly the
\* error_message of each failed node (one entry per failed node, in order),
\* each failed node's result carries the message its executor failed with, and
\* final_output is the output of a node that completed when there is one.
CexC14 ==
    \A r \in RunIds :
        (pc[r] = "done" /\ PassedValidation(r)) =>
            LET failed == FailedNodes(result[r].node_results)
            IN /\ Len(result[r].errors) = Len(failed)
               /\ \A i \in DOMAIN failed :
                     /\ result[r].errors[i] = failed[i].error_message
                     /\ failed[i].error_message # None
               /\ (\E k \in DOMAIN executed[r] : executed[r][k].outcome = "completed") =>
                     \E k \in DOMAIN executed[r] :
                        /\ executed[r][k].outcome = "completed"
                        /\ result[r].final_output = OutputOf(executed[r][k].node)

\* The order obtained from the sets alone: as long as some node that is not
\* emitted has all its predecessors emitted (in-degree zero), emit the smallest
\* such node.
RECURSIVE SmallestFirst(_, _, _)
SmallestFirst(ids, E, emitted) ==
    LET done == Range(emitted)
        eligible == {n \in ids \ done : \A e \in E : e.target = n => e.source \in done}
    IN IF eligible = {} THEN emitted
       ELSE SmallestFirst(ids, E,
                Append(emitted, CHOOSE n \in eligible : \A m \in eligible : n <= m))

\* C15: for a workflow with distinct node ids and edges over its nodes,
\* _topological_sort emits at every step the smallest node id among the nodes
\* not yet emitted whose in-degree is zero, so its order (or its failure, on a
\* cycle) is determined by the set of node ids and the set of edges, whatever
\* the order in which nodes and edges are listed.
ThmC15 ==
    \A r \in RunIds :
        (pc[r] = "start" /\ DistinctIds(workflow[r]) /\ EdgesOverNodes(workflow[r])) =>
            LET ids == Range(workflow[r].nodes)
                E == Range(workflow[r].edges)
                t == _topological_sort(workflow[r].nodes, workflow[r].edges)
                canonical == SmallestFirst(ids, E, <<>>)
            IN /\ t.exc = NoExc <=> ~Cyclic(E)
               /\ t.exc = NoExc => t.order = canonical
               /\ t.exc = NoExc =>
                     \A k \in DOMAIN t.order :
                        \A n \in ids :
                           (/\ \A j \in 1..(k - 1) : t.order[j] # n
                            /\ \A e \in E : e.target = n =>
                                  \E j \in 1..(k - 1) : t.order[j] = e.source)
                           => t.order[k] <= n

\* nodes listed in descending order and two roots eligible at once: the run
\* executes them in ascending order of id
WitC15 ==
    /\ pc[1] = "done"
    /\ workflow[1].nodes = <<3, 2, 1>>
    /\ workflow[1].edges = <<[source |-> 2, target |-> 1]>>
    /\ execution_order[1] = <<2, 1, 3>>
    /\ Len(executed[1]) = 3

\* ------------------------------------------------- claims on the deployed routes
\* a route was invoked on a snapshot whose dependency map could be built
ChainRan == chain.phase # "idle" /\ chain.graph.exc = NoExc

\* the chain is waiting for the executor of a node
Awaiting == chain.phase \in {"start", "loop"} /\ chain.awaiting # NoNode

\* C16 as stated: in both routes a node with two or more predecessors is given
\* the input the Execution Service would give it for the same edges and the
\* same predecessor results: the map from predecessor id to its output.
CexC16 ==
    (/\ Awaiting
     /\ Cardinality(Range(chain.graph.dependencies[chain.awaiting])) >= 2
     /\ \A p \in Range(chain.graph.dependencies[chain.awaiting]) :
           chain.node_outputs[p].kind = "NodeExecutionResult")
    => LET preds == Range(chain.graph.dependencies[chain.awaiting])
           ctx == [node_results |-> [p \in preds |-> chain.node_outputs[p]], logs |-> <<>>]
       IN chain.input =
             _get_node_input_data(chain.awaiting,
                                  registered_routes[chain.deployment_id].edges,
                                  ctx, chain.initial_input).input

\* the last entry of ids whose output is there and is no error value
LastNonErrorOf(ids, node_outputs) ==
    LET ok == {i \in DOMAIN ids : /\ ids[i] \in DOMAIN node_outputs
                                  /\ ~IsErrorDict(node_outputs[ids[i]])}
    IN IF ok = {} THEN None
       ELSE node_outputs[ids[CHOOSE i \in ok : \A j \in ok : j <= i]]

\* C17 as stated: when a route has run its chain, the final output is the
\* output of the last sink whose output is no error; when no sink has one, the
\* output of the last executed node whose output is no error; else absent.
CexC17 ==
    (ChainRan /\ chain.phase = "done") =>
        LET of_sinks == LastNonErrorOf(chain.graph.end_nodes, chain.node_outputs)
            of_executed == LastNonErrorOf(chain.execution_order, chain.node_outputs)
        IN chain.final_output = IF of_sinks # None THEN of_sinks ELSE of_executed

\* C18: the chain of a route only ever waits for the executor of a node that
\* was not executed yet; when no node is eligible while nodes remain
\* unexecuted, the loop is left, a warning is emitted, nothing is raised and
\* the route returns the outputs of the nodes that did execute.
ThmC18 ==
    /\ (chain.phase \in {"start", "loop"}) =>
          /\ chain.awaiting \in Range(chain.graph.node_ids)
          /\ chain.awaiting \notin chain.executed_nodes
    /\ (ChainRan /\ chain.phase = "done") =>
          LET all == Range(chain.graph.node_ids)
              left == all \ chain.executed_nodes
          IN /\ chain.exc = NoExc
             /\ chain.executed_nodes \subseteq all
             /\ \A n \in left : ~(Range(chain.graph.dependencies[n]) \subseteq chain.executed_nodes)
             /\ chain.warning <=> left # {}
             /\ DOMAIN chain.node_outputs = chain.executed_nodes
             /\ Range(chain.execution_order) = chain.executed_nodes
             /\ chain.route = "stream" =>
                   /\ (left # {}) <=> \E i \in DOMAIN chain.events :
                                          chain.events[i].type = "warning"
                   /\ chain.events[Len(chain.events)].type = "workflow_complete"

\* the execute route stalled on a snapshot with a cycle after it had executed
\* one node, and returned that node's output
WitC18 ==
    /\ ChainRan /\ chain.phase = "done"
    /\ chain.route = "execute"
    /\ chain.warning
    /\ Cardinality(chain.executed_nodes) = 1
    /\ Len(chain.graph.node_ids) = 3
    /\ chain.final_output # None

\* the node_start and node_complete events of a stream
NodeEvents(events) == SelectSeq(events, LAMBDA e : e.type \in {"node_start", "node_complete"})

\* C19: in a stream whose chain runs, the node events are, node after node in
\* execution order, the node_start of a node immediately followed by its
\* node_complete; the stream ends with the only workflow_complete event, which
\* comes right after the warning when the loop stalled.
ThmC19 ==
    (ChainRan /\ chain.route = "stream") =>
        LET ev == chain.events
            ne == NodeEvents(ev)
            order == chain.execution_order
            waiting == chain.phase # "done" /\ chain.awaiting # NoNode
        IN /\ Len(ne) = 2 * Len(order) + (IF waiting THEN 1 ELSE 0)
           /\ \A k \in DOMAIN order :
                 /\ ne[2 * k - 1] = Event("node_start", order[k])
                 /\ ne[2 * k] = Event("node_complete", order[k])
           /\ waiting => ev[Len(ev)] = Event("node_start", chain.awaiting)
           /\ \A i \in 1..(Len(ev) - 1) :
                 ev[i].type = "node_start" => ev[i + 1] = Event("node_complete", ev[i].node_id)
           /\ Cardinality({i \in DOMAIN ev : ev[i].type = "workflow_complete"})
                 = (IF chain.phase = "done" THEN 1 ELSE 0)
           /\ chain.phase = "done" =>
                 /\ ev[Len(ev)].type = "workflow_complete"
                 /\ chain.warning => ev[Len(ev) - 1].type = "warning"

\* a stream that executed two nodes, stalled on the third with a warning and
\* ended with workflow_complete
WitC19 ==
    /\ ChainRan /\ chain.route = "stream" /\ chain.phase = "done"
    /\ Len(chain.execution_order) = 2
    /\ chain.warning
    /\ Len(NodeEvents(chain.events)) = 4
    /\ chain.events[Len(chain.events)].type = "workflow_complete"

\* C20 as stated: what a route presents as final_output is the content field
\* of the raw output of the node selected as final when that output has one,
\* and the raw output itself otherwise.
CexC20 ==
    (ChainRan /\ chain.phase = "done" /\ chain.final_output # None) =>
        LET raw == extract_output_data(chain.final_output)
        IN chain.presented = IF raw # None /\ IsDictWithContent(raw) THEN raw.content ELSE raw

\* ------------------------------------------------- claims on the registered routes
\* the number of entries of a list that satisfy a test
CountOf(s, Test(_)) == Cardinality({i \in DOMAIN s : Test(s[i])})

\* the kinds that expose an action route, and the leaf of that route
ActionLeaf(node_type) ==
    IF node_type \in {"groqllama", "claude4", "gemini", "chatbot"} THEN "completion"
    ELSE IF node_type = "graphrag" THEN "query"
    ELSE "none"

\* C21: on each router a deployment has node routes on, every node of the
\* snapshot has exactly one status route and, exactly when it is a
\* model-completion kind (completion) or the graph-query kind (query), one
\* action route; nodes of other kinds have no action route, and there is no
\* node route besides these.
ThmC21 ==
    \A d \in DOMAIN registered_routes :
        LET nodes == registered_routes[d].nodes
            eps == registered_routes[d].endpoints
        IN \A router \in {"deployment", "direct"} :
              /\ \A n \in {nodes[i].id : i \in DOMAIN nodes} :
                    /\ CountOf(eps, LAMBDA e : e = Endpoint(router, "GET", n, "status"))
                          = CountOf(nodes, LAMBDA x : x.id = n)
                    /\ \A leaf \in {"completion", "query"} :
                          CountOf(eps, LAMBDA e : e = Endpoint(router, "POST", n, leaf))
                             = CountOf(nodes, LAMBDA x : x.id = n /\ ActionLeaf(x.type) = leaf)
              /\ CountOf(eps, LAMBDA e : e.router = router /\ e.node # NoNode)
                    = Len(nodes) + CountOf(nodes, LAMBDA x : ActionLeaf(x.type) # "none")

\* a deployment of a graph-query node and a search node: the first has a query
\* route and a status route on the direct router, the second a status route only
WitC21 ==
    \E d \in DOMAIN registered_routes :
        /\ Len(registered_routes[d].nodes) = 2
        /\ registered_routes[d].nodes[1].type = "graphrag"
        /\ registered_routes[d].nodes[2].type = "search"
        /\ CountOf(registered_routes[d].endpoints,
                   LAMBDA e : e = Endpoint("direct", "POST", 1, "query")) = 1
        /\ CountOf(registered_routes[d].endpoints,
                   LAMBDA e : e.router = "direct" /\ e.node = 2) = 1

\* the number of action-bearing nodes of a snapshot
ActionNodes(nodes) == CountOf(nodes, LAMBDA x : ActionLeaf(x.type) # "none")

\* C22 as stated: a deployment has (nodes + action-bearing nodes + 3) routes on
\* each of its two routers, twice that in all: 6 and 12 for one
\* model-completion node and one document node.
CexC22 ==
    \A d \in DOMAIN registered_routes :
        LET nodes == registered_routes[d].nodes
            eps == registered_routes[d].endpoints
        IN /\ \A router \in {"deployment", "direct"} :
                 CountOf(eps, LAMBDA e : e.router = router)
                    = Len(nodes) + ActionNodes(nodes) + 3
           /\ Len(eps) = 2 * (Len(nodes) + ActionNodes(nodes) + 3)

\* C22 amended: the prefixed router of a deployment has (nodes + action-bearing
\* nodes + 3) routes, the three workflow-level routes health, execute and
\* execute-stream among them once each; the unprefixed router has the node
\* routes only, (nodes + action-bearing nodes); in all 2 * (nodes +
\* action-bearing nodes) + 3, which is 9 for one model-completion node and one
\* document node.
ThmC22 ==
    \A d \in DOMAIN registered_routes :
        LET nodes == registered_routes[d].nodes
            eps == registered_routes[d].endpoints
        IN /\ CountOf(eps, LAMBDA e : e.router = "deployment")
                 = Len(nodes) + ActionNodes(nodes) + 3
           /\ CountOf(eps, LAMBDA e : e.router = "direct") = Len(nodes) + ActionNodes(nodes)
           /\ Len(eps) = 2 * (Len(nodes) + ActionNodes(nodes)) + 3
           /\ \A leaf \in {"health", "execute", "execute-stream"} :
                 /\ CountOf(eps, LAMBDA e : e.node = NoNode /\ e.leaf = leaf
                                            /\ e.router = "deployment") = 1
                 /\ CountOf(eps, LAMBDA e : e.node = NoNode /\ e.leaf = leaf
                                            /\ e.router = "direct") = 0

\* a model-completion node and a document node were deployed: six routes on the
\* prefixed router, nine in all
WitC22 ==
    \E d \in DOMAIN registered_routes :
        /\ Len(registered_routes[d].nodes) = 2
        /\ registered_routes[d].nodes[1].type = "claude4"
        /\ registered_routes[d].nodes[2].type = "document"
        /\ registered_routes[d].nodes[1].id # registered_routes[d].nodes[2].id
        /\ CountOf(registered_routes[d].endpoints, LAMBDA e : e.router = "deployment") = 6
        /\ Len(registered_routes[d].endpoints) = 9

\* ------------------------------------------------- claims on concurrent runs
\* What execute_workflow does for one request when no other run exists, with
\* the iteration order io, the graph-database errors ge and the node
\* behaviours bodies (one per executed node, in order): the context, the node
\* results and, when finished is set, the returned result.
RECURSIVE AloneLoop(_, _, _, _, _)
AloneLoop(wf, inp, order, bodies, st) ==
    IF Len(st.node_results) = Len(bodies) THEN st
    ELSE LET node == order[Len(st.node_results) + 1]
             c1 == Log(st.ctx, "info", "Executing node", NoNode)
             gi == _get_node_input_data(node, wf.edges, c1, inp)
             ex == _execute_node(node, gi.ctx, gi.input, bodies[Len(st.node_results) + 1])
             c2 == set_node_result(ex.ctx, ex.res)
             c3 == IF ex.res.status = "completed"
                   THEN Log(c2, "info", "Node completed successfully", NoNode)
                   ELSE Log(c2, "error", "Node failed", NoNode)
         IN AloneLoop(wf, inp, order, bodies,
                      [ctx |-> c3, node_results |-> Append(st.node_results, ex.res)])

AloneFailed(r, ctx, error_msg) ==
    LET c1 == Log(ctx, "error", "Workflow execution failed", NoNode)
    IN [ctx |-> c1, node_results |-> <<>>, order |-> <<>>,
        result |-> FailedResult(r, c1, error_msg)]

RunAlone(r, wf, inp, io, ge, bodies, finished) ==
    LET c0 == Log(NewContext, "info", "Starting workflow execution", NoNode)
        c1 == Log(c0, "info", "Validating workflow structure", NoNode)
        v == _validate_workflow(wf, c1, io, ge)
        c2 == Log(v.ctx, "info", "Computing execution order", NoNode)
        t == _topological_sort(wf.nodes, wf.edges)
    IN IF v.exc # NoExc THEN AloneFailed(r, c1, Msg(v.exc, NoNode, <<>>))
       ELSE IF v.errors # <<>>
       THEN AloneFailed(r, v.ctx, Msg("Workflow validation failed", NoNode, v.errors))
       ELSE IF t.exc # NoExc
       THEN AloneFailed(r, c2, Msg("Workflow contains cycles - cannot determine execution order",
                                   NoNode, <<>>))
       ELSE LET st == AloneLoop(wf, inp, t.order, bodies,
                                [ctx |-> Log(c2, "info", "Execution order", NoNode),
                                 node_results |-> <<>>])
                c3 == Log(Log(st.ctx, "info", "Workflow execution completed", NoNode),
                          "info", "Total execution time", NoNode)
            IN IF ~finished
               THEN [ctx |-> st.ctx, node_results |-> st.node_results, order |-> t.order,
                     result |-> None]
               ELSE [ctx |-> c3, node_results |-> st.node_results, order |-> t.order,
                     result |-> [kind |-> "WorkflowExecutionResult", execution_id |-> r,
                                 status |-> FinalStatus(st.node_results),
                                 node_results |-> st.node_results,
                                 final_output |-> FinalOutput(st.node_results),
                                 logs |-> st.ctx.logs,
                                 errors |-> ErrorsOf(st.node_results)]]

\* the behaviours the nodes of a run have shown so far
BodiesOf(r) == [i \in DOMAIN executed[r] |-> executed[r][i].body]

\* the run has passed validation, or has returned
Underway(r) == pc[r] \in {"execute", "done"}

\* no run is between nodes while another run is
OneAtATime ==
    \A r1, r2 \in ConcurrentRunIds :
        r1 # r2 => ~(pc[r1] \in {"validate", "execute"} /\ pc[r2] \in {"validate", "execute"})

\* C23: of two runs on one service, interleaved at any of their awaits, each
\* has at every point the context (logs, node outputs), the node results and,
\* once it has returned, the result (status, final output, logs, errors) that
\* the same request produces when it runs alone with the same node behaviours;
\* no exception escapes; and while a run is under way the tracked status under
\* its execution id is its own (its current node).
ThmC23 ==
    \A r \in ConcurrentRunIds :
        /\ pc[r] = "start" => context[r] = NewContext /\ result[r] = None
        /\ pc[r] = "validate" =>
              /\ context[r] = Log(NewContext, "info", "Starting workflow execution", NoNode)
              /\ r \in DOMAIN active_executions
              /\ active_executions[r].current_node = NoNode
        /\ Underway(r) =>
              /\ raised[r] = NoExc
              /\ \E io \in IterOrders(Range(workflow[r].nodes)), ge \in GraphragErrors :
                    LET alone == RunAlone(r, workflow[r], input_data[r], io, ge, BodiesOf(r),
                                          pc[r] = "done")
                    IN /\ context[r] = alone.ctx
                       /\ node_results[r] = alone.node_results
                       /\ result[r] = alone.result
                       /\ pc[r] = "execute" => execution_order[r] = alone.order
        /\ pc[r] = "execute" =>
              /\ r \in DOMAIN active_executions
              /\ active_executions[r].current_node =
                    IF node_results[r] = <<>> THEN NoNode
                    ELSE execution_order[r][Len(node_results[r])]
        /\ pc[r] = "done" => r \notin DOMAIN active_executions

\* run 1 executed its first node, then run 2 ran from validation to its
\* second node with another input and a failing first node, and run 1 is still
\* between its nodes
WitC23 ==
    /\ pc[1] = "execute" /\ Len(node_results[1]) = 1 /\ Len(execution_order[1]) = 2
    /\ pc[2] = "execute" /\ Len(node_results[2]) = 2
    /\ workflow[1] = workflow[2]
    /\ workflow[1].edges # <<>>
    /\ input_data[1] # input_data[2]
    /\ node_results[1][1].status = "completed"
    /\ node_results[2][1].status = "failed"
    /\ Len(context[2].logs) > Len(context[1].logs)

\* ------------------------------------------------- claims on rejected configurations
\* the warning entries of a list of logs
WarningsIn(logs) == SelectSeq(logs, LAMBDA l : l.level = "warning")

\* the nodes of a workflow, with repetition, whose configuration is rejected
RejectedNodes(wf) == SelectSeq(wf.nodes, LAMBDA n : n \in Rejected(wf))

\* the workflow with every configuration made acceptable
WithValidConfigs(wf) == [wf EXCEPT !.invalid_config = {}]

\* C24: validation reports a node whose executor rejects its configuration by
\* one warning log entry and nothing else: _validate_workflow returns the same
\* exception and the same error list as for the workflow with acceptable
\* configurations, and when it returns, its log has one warning per rejected
\* node; a run that passed validation has these warnings in its context, and
\* once it has returned, it has executed every node, the rejected ones
\* included.
ThmC24 ==
    \A r \in RunIds :
        LET wf == workflow[r]
        IN /\ pc[r] = "start" =>
                \A io \in IterOrders(Range(wf.nodes)), ge \in GraphragErrors :
                    LET v == _validate_workflow(wf, NewContext, io, ge)
                        w == _validate_workflow(WithValidConfigs(wf), NewContext, io, ge)
                    IN /\ v.exc = w.exc
                       /\ v.errors = w.errors
                       /\ v.exc = NoExc =>
                             /\ Len(WarningsIn(v.ctx.logs)) = Len(RejectedNodes(wf))
                             /\ Len(v.ctx.logs) = Len(w.ctx.logs) + Len(RejectedNodes(wf))
           /\ PassedValidation(r) =>
                /\ Len(WarningsIn(context[r].logs)) = Len(RejectedNodes(wf))
                /\ pc[r] = "done" =>
                      /\ Len(result[r].node_results) = Len(wf.nodes)
                      /\ \A n \in Rejected(wf) : CallsOf(r, n) # {}

\* a run whose second node has a rejected configuration has returned: the
\* warning is in its logs, and both nodes were executed
WitC24 ==
    /\ pc[1] = "done"
    /\ Rejected(workflow[1]) = {2}
    /\ Len(workflow[1].nodes) = 2
    /\ Len(WarningsIn(result[1].logs)) = 1
    /\ Len(result[1].node_results) = 2
    /\ result[1].node_results[1].status = "completed"

\* C25: a run of a workflow with a node whose configuration its executor
\* rejects, or of a workflow whose edges contain a cycle, returns a result with
\* status failed and a non-empty errors list; the node with the rejected
\* configuration has a failed result saying so.
ThmC25 ==
    \A r \in RunIds :
        LET wf == workflow[r]
        IN pc[r] = "done" /\ (Rejected(wf) # {} \/ Cyclic(Range(wf.edges))) =>
              /\ raised[r] = NoExc
              /\ result[r].status = "failed"
              /\ result[r].errors # <<>>
              /\ \A i \in DOMAIN result[r].node_results :
                    result[r].node_results[i].node_id \in Rejected(wf) =>
                       /\ result[r].node_results[i].status = "failed"
                       /\ result[r].node_results[i].error_message
                             = Msg("Invalid configuration", NoNode, <<>>)

\* a run of an acyclic workflow whose only node with a rejected configuration
\* is the first one has returned as failed, its second node completed
WitC25 ==
    /\ pc[1] = "done"
    /\ Rejected(workflow[1]) = {1}
    /\ ~Cyclic(Range(workflow[1].edges))
    /\ workflow[1].edges # <<>>
    /\ result[1].status = "failed"
    /\ Len(result[1].errors) = 1
    /\ Len(result[1].node_results) = 2
    /\ result[1].node_results[2].status = "completed"

\* ------------------------------------------------- claims on the placeholder executor
\* the types without a full implementation, one of them unknown to the factory
PlaceholderTypes == {"embeddings", "image", "vapi", "hologram"}

\* the nodes of a workflow whose type resolves to the placeholder executor
PlaceholderNodes(wf) ==
    {n \in Range(wf.nodes) : get_executor(wf.types[n]) = "PlaceholderExecutor"}

\* C26: embeddings, image, vapi and a type unknown to the factory resolve to
\* the placeholder executor; its validate_config accepts every configuration,
\* so validation logs no warning for such a node and returns the error list it
\* returns for the workflow with acceptable configurations; and every executed
\* placeholder node has a result with status completed, an output and no error
\* message, whatever its configuration.
ThmC26 ==
    /\ \A t \in PlaceholderTypes : _create_executor(t) = "PlaceholderExecutor"
    /\ \A r \in RunIds :
        LET wf == workflow[r]
        IN /\ \A n \in PlaceholderNodes(wf) :
                 /\ validate_config(get_executor(wf.types[n]), wf, n)
                 /\ n \notin Rejected(wf)
           /\ pc[r] = "start" =>
                \A io \in IterOrders(Range(wf.nodes)), ge \in GraphragErrors :
                    LET v == _validate_workflow(wf, NewContext, io, ge)
                    IN v.exc = NoExc /\ Range(wf.nodes) = PlaceholderNodes(wf) =>
                          /\ WarningsIn(v.ctx.logs) = <<>>
                          /\ v.errors = _validate_workflow(WithValidConfigs(wf), NewContext,
                                                           io, ge).errors
           /\ \A i \in DOMAIN node_results[r] :
                 node_results[r][i].node_id \in PlaceholderNodes(wf) =>
                    /\ node_results[r][i].status = "completed"
                    /\ node_results[r][i].output_data = OutputOf(node_results[r][i].node_id)
                    /\ node_results[r][i].output_data # None
                    /\ node_results[r][i].error_message = NoMsg

\* a run of two image nodes, both with a configuration a full executor would
\* reject, has returned as completed with the output of the second
WitC26 ==
    /\ pc[1] = "done"
    /\ Len(workflow[1].nodes) = 2
    /\ PlaceholderNodes(workflow[1]) = {1, 2}
    /\ workflow[1].invalid_config = {1, 2}
    /\ result[1].status = "completed"
    /\ Len(result[1].node_results) = 2
    /\ result[1].final_output = OutputOf(result[1].node_results[2].node_id)
    /\ WarningsIn(result[1].logs) = <<>>

\* ------------------------------------------------- claims on runs in the background
\* the run is in progress: execute_workflow tracks it
InProgress(r) == pc[r] \in {"validate", "execute"}

\* C27 as stated: while a run started by the execute-async route is in
\* progress, the status route called with the execution_id of the route's
\* response returns the status of that run.
CexC27 ==
    \A r \in ConcurrentRunIds :
        started[r] # None /\ InProgress(r) =>
            /\ get_execution_status(started[r].execution_id) # None
            /\ get_execution_status(started[r].execution_id) = active_executions[r]

\* ------------------------------------------------- claims on the logical connector
\* the truthiness test_truthiness_logic expects of a value: a dict follows its
\* success or status entry, and any other value is falsy when it is None,
\* False, a zero, '', 'false', '0' or an empty list or dict
ExpectedTruthy(value) ==
    IF value.kind = "dict" /\ HasKey(value, "success") THEN Lookup(value, "success").b
    ELSE IF value.kind = "dict" /\ HasKey(value, "status")
    THEN Lookup(value, "status").str # "error"
    ELSE value \notin {None, PyBool(FALSE), PyInt(0), PyFloat(0), PyStr(""), PyStr("false"),
                       PyStr("0"), PyList(<<>>), PyDict(<<>>)}

\* C28 as stated: for each tested value among the inputs of a connector call,
\* _is_truthy is the truthiness the test expects, and the output's
\* truthy_count counts the inputs expected to be truthy.
CexC28 ==
    \A r \in RunIds :
        pc[r] = "returned" /\ result[r].inputs # <<>>
        /\ Range(result[r].inputs) \subseteq TestValues =>
            /\ \A i \in DOMAIN result[r].inputs :
                  _is_truthy(result[r].inputs[i]) = ExpectedTruthy(result[r].inputs[i])
            /\ result[r].truthy_count = Len(SelectSeq(result[r].inputs, ExpectedTruthy))

\* ------------------------------------------------- claims on the cycle error
\* C29: for a workflow with distinct node ids whose edges join its nodes,
\* _topological_sort raises the cycle error (ValueError) exactly when the
\* edges contain a directed cycle, which is exactly when _has_cycles returns
\* true, in whatever order it visits the nodes; when it raises it hands out no
\* order, and when it does not the order holds every node.
ThmC29 ==
    \A r \in RunIds :
        (pc[r] = "start" /\ DistinctIds(workflow[r]) /\ EdgesOverNodes(workflow[r])) =>
            LET wf == workflow[r]
                t == _topological_sort(wf.nodes, wf.edges)
            IN /\ t.exc \in {NoExc, "ValueError"}
               /\ t.exc = "ValueError" <=> Cyclic(Range(wf.edges))
               /\ \A io \in IterOrders(Range(wf.nodes)) :
                     LET h == _has_cycles(wf.nodes, wf.edges, io)
                     IN h.exc = NoExc /\ (h.ret <=> t.exc = "ValueError")
               /\ t.exc = "ValueError" => t.order = <<>>
               /\ t.exc = NoExc => Len(t.order) = Len(wf.nodes)

\* a run of three nodes of which two form a cycle has failed: Kahn's algorithm
\* emits the third node, which has no incoming edge, and _topological_sort raises
WitC29 ==
    /\ pc[1] = "done"
    /\ DistinctIds(workflow[1]) /\ EdgesOverNodes(workflow[1])
    /\ Len(workflow[1].nodes) = 3
    /\ Cyclic(Range(workflow[1].edges))
    /\ \E n \in Range(workflow[1].nodes) :
          \A e \in Range(workflow[1].edges) : e.target # n /\ e.source # n
    /\ _topological_sort(workflow[1].nodes, workflow[1].edges).exc = "ValueError"
    /\ result[1].status = "failed"

\* ------------------------------------------------- claims on the order of a chain
\* the predecessors of a node in the snapshot of a deployment
SnapshotPredecessors(d, n) ==
    {e.source : e \in {x \in Range(registered_routes[d].edges) : x.target = n}}

\* C30: in both routes, on a snapshot whose dependency map could be built, the
\* chain awaits a node only when all its predecessors (by the edges of the
\* snapshot) were executed; the nodes without predecessor come first in the
\* execution order and are given the caller's input; the execution order
\* holds no node twice, each node after its predecessors; and when the chain
\* is done on an acyclic snapshot, the order holds every node.
ThmC30 ==
    ChainRan =>
        LET d == chain.deployment_id
            order == chain.execution_order
            ids == Range(chain.graph.node_ids)
            starts == {n \in ids : SnapshotPredecessors(d, n) = {}}
        IN /\ Awaiting =>
                /\ SnapshotPredecessors(d, chain.awaiting) \subseteq chain.executed_nodes
                /\ chain.awaiting \notin Range(order)
                /\ chain.awaiting \in starts => chain.input = chain.initial_input
                /\ chain.awaiting \notin starts => starts \subseteq chain.executed_nodes
           /\ \A k \in DOMAIN order :
                /\ \A j \in DOMAIN order : order[j] = order[k] => j = k
                /\ SnapshotPredecessors(d, order[k]) \subseteq {order[j] : j \in 1..(k - 1)}
                /\ order[k] \in starts => \A j \in 1..(k - 1) : order[j] \in starts
           /\ (chain.phase = "done" /\ ~Cyclic(Range(registered_routes[d].edges))) =>
                /\ Range(order) = ids
                /\ Len(order) = Cardinality(ids)
                /\ ~chain.warning

\* the stream route has executed the three nodes of the snapshot 3, 2, 1 with
\* the edges 1 -> 3 and 2 -> 3: the two start nodes first, then their successor
WitC30 ==
    /\ ChainRan /\ chain.phase = "done" /\ chain.route = "stream"
    /\ Len(chain.execution_order) = 3
    /\ chain.execution_order[3] = 3
    /\ SnapshotPredecessors(chain.deployment_id, 3) = {1, 2}

\* C31: in a run that passed validation (its execution order was computed and
\* the node loop entered), the list node_results holds at every moment one
\* NodeExecutionResult for each node executed so far, in execution order; each
\* of them, completed or failed, is the entry of the context under its node
\* id; once the run has returned there is exactly one for each node of the
\* workflow and the returned result carries that list; and no step of any run
\* changes a result already in the list or in the context.
ThmC31 ==
    [][\A r \in RunIds :
          LET order == execution_order'[r]
              res == node_results'[r]
              recorded == context'[r].node_results
          IN /\ order # <<>> =>
                  /\ Len(res) <= Len(order)
                  /\ \A i \in DOMAIN res : res[i].node_id = order[i]
                  /\ \A i \in DOMAIN res : res[i].status \in {"completed", "failed"}
                  /\ \A i, j \in DOMAIN res : res[i].node_id = res[j].node_id => i = j
                  /\ DOMAIN recorded = {res[i].node_id : i \in DOMAIN res}
                  /\ \A i \in DOMAIN res : recorded[res[i].node_id] = res[i]
                  /\ pc'[r] = "done" =>
                        /\ \A n \in Range(workflow'[r].nodes) :
                              Cardinality({i \in DOMAIN res : res[i].node_id = n}) = 1
                        /\ Len(res) = Len(workflow'[r].nodes)
                        /\ result'[r].node_results = res
             /\ \A i \in DOMAIN node_results[r] :
                    i \in DOMAIN res /\ res[i] = node_results[r][i]
             /\ \A n \in DOMAIN context[r].node_results :
                    n \in DOMAIN recorded /\ recorded[n] = context[r].node_results[n]
      ]_vars

\* a run of three nodes has returned: its first and third node failed, its
\* second completed, and the context holds all three results
WitC31 ==
    /\ pc[1] = "done"
    /\ Len(node_results[1]) = 3
    /\ node_results[1][1].status = "failed"
    /\ node_results[1][2].status = "completed"
    /\ node_results[1][3].status = "failed"
    /\ DOMAIN context[1].node_results = {1, 2, 3}

\* C32 as stated: invoking the execute or the execute-stream route of a
\* deployment leaves its record's snapshot as it was at deploy time: every
\* snapshotted node keeps the config it was deployed with (an empty config stays
\* empty) and the edge list is the same.  (The submitted workflow is what the
\* deployment was created from; it never changes.)
CexC32 ==
    \A d \in DOMAIN registered_routes :
        /\ registered_routes[d].edges = submitted.edges
        /\ DOMAIN registered_routes[d].nodes = DOMAIN submitted.nodes
        /\ \A k \in DOMAIN submitted.nodes :
              registered_routes[d].nodes[k].config = submitted.nodes[k].config

\* C33: the tracked status of a run is created as running when the run is
\* registered (before that there is none), it stays running, in
\* active_executions, until the run finishes, it then becomes completed or
\* failed and never changes again; the result returned has that same status,
\* which is completed or failed and never pending, running or skipped.
ThmC33 ==
    [][\A r \in RunIds :
          /\ pc'[r] = "start" => status'[r] = None /\ r \notin DOMAIN active_executions'
          /\ pc'[r] \in {"validate", "execute"} =>
                /\ status'[r].status = "running"
                /\ r \in DOMAIN active_executions'
                /\ active_executions'[r] = status'[r]
          /\ pc'[r] = "done" =>
                /\ status'[r].status \in {"completed", "failed"}
                /\ result'[r] # None
                /\ result'[r].status = status'[r].status
          /\ <<IF status[r] = None THEN "none" ELSE status[r].status, status'[r].status>> \in
                {<<"none", "running">>, <<"running", "running">>,
                 <<"running", "completed">>, <<"running", "failed">>,
                 <<"completed", "completed">>, <<"failed", "failed">>}
      ]_vars

\* a run whose second node failed has finished: its tracked status went from
\* running to failed, and the result returned is failed
WitC33 ==
    /\ pc[1] = "done"
    /\ Len(node_results[1]) = 2
    /\ node_results[1][1].status = "completed"
    /\ node_results[1][2].status = "failed"
    /\ status[1].status = "failed"
    /\ result[1].status = "failed"

\* C34 as stated: every NodeExecutionResult of a run carries at most 10 log
\* entries, and each of them was logged for the node of the result (its node_id
\* is the result's node_id), never for another node or for the run as a whole.
CexC34 ==
    \A r \in RunIds : \A i \in DOMAIN node_results[r] :
        LET res == node_results[r][i]
        IN /\ Len(res.logs) <= NodeLogTail
           /\ \A k \in DOMAIN res.logs : res.logs[k].node_id = res.node_id

\* the predecessors of node n whose NodeExecutionResult in run r is failed
FailedPredecessors(r, n) ==
    {p \in Predecessors(workflow[r], n) :
        \E j \in ResultsOf(r, p) : node_results[r][j].status = "failed"}

\* C35: in a run that passed validation, a node with a failed predecessor is
\* still executed (once the run is over it has been called exactly once and has
\* its result), and the failed predecessor contributes the absent value None:
\* it is the whole input when the node has that one incoming edge, and the
\* entry under the predecessor's id in the input map when the node has several
\* incoming edges.
ThmC35 ==
    \A r \in RunIds :
        /\ (pc[r] = "done" /\ PassedValidation(r)) =>
              \A n \in Range(workflow[r].nodes) :
                  FailedPredecessors(r, n) # {} =>
                      Cardinality(CallsOf(r, n)) = 1 /\ Cardinality(ResultsOf(r, n)) = 1
        /\ \A i \in DOMAIN executed[r] :
              LET n == executed[r][i].node
                  inc == IncomingEdges(workflow[r], n)
                  input == executed[r][i].input
              IN \A p \in FailedPredecessors(r, n) :
                    /\ \E j \in ResultsOf(r, p) : j < i
                    /\ Cardinality(inc) = 1 => input = None
                    /\ Cardinality(inc) >= 2 =>
                          /\ input.kind = "dict"
                          /\ p \in DOMAIN input.items
                          /\ input.items[p] = None

\* nodes 1 and 2 feed node 3; node 1 failed, node 2 completed, and node 3 was
\* executed with the map {1: None, 2: output of 2} and completed
WitC35 ==
    /\ pc[1] = "done"
    /\ Range(workflow[1].edges) = {[source |-> 1, target |-> 3], [source |-> 2, target |-> 3]}
    /\ Len(executed[1]) = 3
    /\ executed[1][1].node = 1 /\ executed[1][1].outcome = "failed"
    /\ executed[1][2].node = 2 /\ executed[1][2].outcome = "completed"
    /\ executed[1][3].node = 3 /\ executed[1][3].outcome = "completed"
    /\ executed[1][3].input.items[1] = None
    /\ executed[1][3].input.items[2] = OutputOf(2)

\* the method and full path of an endpoint of deployment d: the prefix
\* /api/deployed/{d} on the deployment router, none on the direct router
MethodAndPath(d, e) ==
    <<e.method, IF e.router = "deployment" THEN d ELSE 0, e.node, e.leaf>>

\* C36 as stated: across all deployments registered in the application, no two
\* registered routes have the same method and path.
CexC36 ==
    \A d1, d2 \in DOMAIN registered_routes :
        \A i1 \in DOMAIN registered_routes[d1].endpoints :
            \A i2 \in DOMAIN registered_routes[d2].endpoints :
                MethodAndPath(d1, registered_routes[d1].endpoints[i1])
                    = MethodAndPath(d2, registered_routes[d2].endpoints[i2])
                  => (d1 = d2 /\ i1 = i2)

\* C37 as stated: for the same snapshot and the same caller input (hence the
\* same order of execution and the same node outputs), the execute route and
\* the execute-stream route report the same final output, also when the output
\* of some node is an error value: whenever either route has run its chain, the
\* final output it selected is the one the selection of each of the two routes
\* gives.
CexC37 ==
    (ChainRan /\ chain.phase = "done") =>
        /\ chain.final_output =
              ChainFinalOutput(chain.graph, chain.execution_order, chain.node_outputs)
        /\ chain.final_output =
              StreamFinalOutput(chain.graph, chain.execution_order, chain.node_outputs)

\* C38 as stated: for every value of NodeType, logical_connector included, the
\* node stored in the snapshot of a deployment has the type of the submitted
\* node, so that the factory gives it the executor it gives the submitted type
\* in a one-shot run.
CexC38 ==
    \A d \in DOMAIN registered_routes : \A k \in DOMAIN submitted.nodes :
        /\ registered_routes[d].nodes[k].type = submitted.nodes[k].type
        /\ get_executor(registered_routes[d].nodes[k].type)
              = get_executor(submitted.nodes[k].type)

\* the snapshot of deployment d has an edge whose source or target is no node
\* of the snapshot
DanglingEdge(d) ==
    \E e \in Range(registered_routes[d].edges) :
        LET ids == {registered_routes[d].nodes[k].id : k \in DOMAIN registered_routes[d].nodes}
        IN e.source \notin ids \/ e.target \notin ids

\* C39 as stated: an execute or execute-stream invocation on a snapshot with
\* such an edge builds its dependency map without raising and returns a result:
\* no exception leaves the handler and the stream does not end with an error
\* event.
CexC39 ==
    (chain.phase = "done" /\ DanglingEdge(chain.deployment_id)) =>
        /\ chain.graph.exc = NoExc
        /\ chain.exc = NoExc
        /\ \A i \in DOMAIN chain.events : chain.events[i].type # "error"

\* the runs that have started and have not returned yet
RunsInProgress == {r \in ConcurrentRunIds : pc[r] \in {"validate", "execute"}}

\* C40: at every moment active_executions holds exactly the runs in progress,
\* each under its own id with status running, and the active-executions route
\* shows exactly those: the entry of a run is there from its start and gone
\* once execute_workflow has returned, whether the run completed, had failing
\* nodes or was rejected by validation; when every run has finished the map is
\* empty.
ThmC40 ==
    /\ DOMAIN active_executions = RunsInProgress
    /\ get_active_executions.active_count = Cardinality(RunsInProgress)
    /\ DOMAIN get_active_executions.executions = RunsInProgress
    /\ \A r \in RunsInProgress : get_active_executions.executions[r].status = "running"
    /\ \A r \in ConcurrentRunIds :
          pc[r] = "done" =>
              /\ result[r] # None
              /\ r \notin DOMAIN active_executions
    /\ (\A r \in ConcurrentRunIds : pc[r] = "done") => active_executions = << >>

\* run 1 was rejected by validation and run 2 ran its two nodes, one of which
\* failed; both were tracked while in progress and the map is empty again
WitC40 ==
    /\ pc[1] = "done" /\ pc[2] = "done"
    /\ result[1].status = "failed" /\ execution_order[1] = <<>>
    /\ result[2].status = "failed" /\ Len(result[2].node_results) = 2
    /\ status[1] # None /\ status[2] # None
    /\ active_executions = << >>

====
